---------------------------- MODULE Spec2Model ----------------------------
(***************************************************************************)
(* Sequent-calculus proof search for propositional classical linear logic  *)
(* (gentzen).  The model follows the generic engine: formulas (Ast),       *)
(* multisets, one-sided sequents, the inference generator (Infer::above),  *)
(* the proof cache (Thunk), the best-first search driver (prove) and the   *)
(* proof-tree reconstructor (Tree::connect).                               *)
(***************************************************************************)
EXTENDS Integers, Sequences, FiniteSets, TLC

(***************************************************************************)
(* Option<T>: None is the empty tuple, Some(x) the one-element tuple.      *)
(***************************************************************************)
None == <<>>
Some(x) == <<x>>
IsSome(o) == Len(o) = 1
Unwrap(o) == o[1]

(***************************************************************************)
(* enum Ast.  Every formula is a tuple whose head is the variant name.     *)
(***************************************************************************)
One == <<"One">>
Bottom == <<"Bottom">>
Top == <<"Top">>
Zero == <<"Zero">>
Value(n) == <<"Value", n>>
Bang(a) == <<"Bang", a>>
Quest(a) == <<"Quest", a>>
Dual(a) == <<"Dual", a>>
Times(a, b) == <<"Times", a, b>>
Par(a, b) == <<"Par", a, b>>
With(a, b) == <<"With", a, b>>
Plus(a, b) == <<"Plus", a, b>>

\* A -* B is sugar for (~A) par B  (impl Sub for Ast).
Lollipop(a, b) == Par(Dual(a), b)

\* Position of the variant in the enum declaration: the derived Ord compares
\* it first.
VariantIndex(a) ==
  CASE a[1] = "One" -> 0
    [] a[1] = "Bottom" -> 1
    [] a[1] = "Top" -> 2
    [] a[1] = "Zero" -> 3
    [] a[1] = "Value" -> 4
    [] a[1] = "Bang" -> 5
    [] a[1] = "Quest" -> 6
    [] a[1] = "Dual" -> 7
    [] a[1] = "Times" -> 8
    [] a[1] = "Par" -> 9
    [] a[1] = "With" -> 10
    [] a[1] = "Plus" -> 11

\* Ordering of two integers as -1 / 0 / 1 (core::cmp::Ordering).
IntCmp(x, y) == IF x < y THEN -1 ELSE IF x > y THEN 1 ELSE 0

\* #[derive(Ord)] on Ast: variant first, then the fields left to right.
RECURSIVE Ast_cmp(_, _)
Ast_cmp(a, b) ==
  LET ia == VariantIndex(a)
      ib == VariantIndex(b)
  IN  IF ia # ib THEN IntCmp(ia, ib)
      ELSE IF ia <= 3 THEN 0
      ELSE IF ia = 4 THEN IntCmp(a[2], b[2])
      ELSE IF ia <= 7 THEN Ast_cmp(a[2], b[2])
      ELSE LET c == Ast_cmp(a[2], b[2])
           IN  IF c # 0 THEN c ELSE Ast_cmp(a[3], b[3])

(***************************************************************************)
(* Multiset<T> = BTreeMap<T, NonZeroUsize>: a sequence of <<element,       *)
(* count>> entries, strictly ascending in the order of the element type T, *)
(* which is "Ast" or "Sequent".                                            *)
(***************************************************************************)
\* T::cmp, defined once the order of sequents is.
RECURSIVE T_cmp(_, _, _)

Multiset_new == <<>>

Multiset_insert(ms, element, T) ==
  IF \E i \in 1..Len(ms) : ms[i][1] = element
  THEN LET i == CHOOSE i \in 1..Len(ms) : ms[i][1] = element
       IN  [ms EXCEPT ![i] = <<element, ms[i][2] + 1>>]
  ELSE LET k == Cardinality({i \in 1..Len(ms) : T_cmp(T, ms[i][1], element) < 0})
       IN  SubSeq(ms, 1, k) \o <<<<element, 1>>>> \o SubSeq(ms, k + 1, Len(ms))

Multiset_contains(ms, element) == \E i \in 1..Len(ms) : ms[i][1] = element

\* A take that decrements the count and never removes the entry.
Multiset_take_keep(ms, element) ==
  IF ~Multiset_contains(ms, element)
  THEN [ms |-> ms, ok |-> FALSE]
  ELSE LET i == CHOOSE i \in 1..Len(ms) : ms[i][1] = element
       IN  [ms |-> [ms EXCEPT ![i] = <<element, ms[i][2] - 1>>], ok |-> TRUE]

\* Returns the multiset after the call and the boolean the call returns.
Multiset_take(ms, element) ==
  IF ~Multiset_contains(ms, element)
  THEN [ms |-> ms, ok |-> FALSE]
  ELSE LET i == CHOOSE i \in 1..Len(ms) : ms[i][1] = element
       IN  IF ms[i][2] - 1 # 0
           THEN [ms |-> [ms EXCEPT ![i] = <<element, ms[i][2] - 1>>], ok |-> TRUE]
           ELSE [ms |-> SubSeq(ms, 1, i - 1) \o SubSeq(ms, i + 1, Len(ms)),
                 ok |-> TRUE]

RECURSIVE Multiset_len(_)
Multiset_len(ms) ==
  IF ms = <<>> THEN 0 ELSE ms[1][2] + Multiset_len(Tail(ms))

\* Each occurrence, in element order.
RECURSIVE Multiset_iter_repeat(_)
Multiset_iter_repeat(ms) ==
  IF ms = <<>> THEN <<>>
  ELSE [i \in 1..ms[1][2] |-> ms[1][1]] \o Multiset_iter_repeat(Tail(ms))

\* Each distinct element once, in element order.
Multiset_iter_unique(ms) == [i \in 1..Len(ms) |-> ms[i][1]]

Multiset_is_empty(ms) == ms = <<>>

Multiset_only(ms) ==
  LET it == Multiset_iter_repeat(ms)
  IN  IF Len(it) = 1 THEN Some(it[1]) ELSE None

Multiset_from_iter(elements, T) ==
  LET RECURSIVE go(_, _)
      go(ms, rest) ==
        IF rest = <<>> THEN ms
        ELSE go(Multiset_insert(ms, Head(rest), T), Tail(rest))
  IN  go(Multiset_new, elements)

Multiset_with(ms, additions, T) ==
  LET RECURSIVE go(_, _)
      go(acc, rest) ==
        IF rest = <<>> THEN acc
        ELSE go(Multiset_insert(acc, Head(rest), T), Tail(rest))
  IN  go(ms, additions)

\* BTreeMap's Ord: lexicographic over the (key, value) entries.
BTreeMap_cmp(a, b, T) ==
  LET n == IF Len(a) < Len(b) THEN Len(a) ELSE Len(b)
      diffs == {i \in 1..n : a[i] # b[i]}
  IN  IF diffs = {} THEN IntCmp(Len(a), Len(b))
      ELSE LET i == CHOOSE i \in diffs : \A j \in diffs : i <= j
               c == T_cmp(T, a[i][1], b[i][1])
           IN  IF c # 0 THEN c ELSE IntCmp(a[i][2], b[i][2])

\* An order that leaves out the total size.
Multiset_cmp_lex(a, b, T) == BTreeMap_cmp(a, b, T)

\* Multiset's Ord: total size first, then the map order.
Multiset_cmp(a, b, T) ==
  LET c == IntCmp(Multiset_len(a), Multiset_len(b))
  IN  IF c # 0 THEN c ELSE BTreeMap_cmp(a, b, T)

(***************************************************************************)
(* RhsOnlyWithExchange<Ast>: a sequent is its right-hand-side multiset.    *)
(***************************************************************************)
Sequent_cmp(a, b) == Multiset_cmp(a, b, "Ast")

T_cmp(T, a, b) == IF T = "Ast" THEN Ast_cmp(a, b) ELSE Sequent_cmp(a, b)

\* A constructor that drops the formula.
from_rhs_empty(rhs_element) == Multiset_new

from_rhs(rhs_element) == Multiset_insert(Multiset_new, rhs_element, "Ast")

Sequent_with(s, additions) == Multiset_with(s, additions, "Ast")

\* A sample whose contexts lose every occurrence of the formula.
Sequent_sample_all(s) ==
  [i \in 1..Len(s) |->
     [item |-> s[i][1],
      context |-> SubSeq(s, 1, i - 1) \o SubSeq(s, i + 1, Len(s))]]

\* For each distinct formula, the pair (formula, sequent without one
\* occurrence of it).
Sequent_sample(s) ==
  [i \in 1..Len(s) |->
     [item |-> s[i][1], context |-> Multiset_take(s, s[i][1]).ms]]

(***************************************************************************)
(* Rule: a name and the multiset of premise sequents.                      *)
(***************************************************************************)
Rule(name, premises) ==
  [name |-> name, above |-> Multiset_from_iter(premises, "Sequent")]

\* impl PartialEq for Rule: the name is ignored.
Rule_eq(r1, r2) == r1.above = r2.above


(***************************************************************************)
(* impl Infer<RhsOnlyWithExchange<Ast>> for Ast: every candidate rule for  *)
(* the principal formula self in the given context, as a list.             *)
(***************************************************************************)
\* A pushdown that never rewrites.
pushdown_stuck(dual) == None

\* One DeMorgan step on the formula under a Dual; None for a Value.
pushdown(dual) ==
  CASE dual[1] = "One" -> Some(Bottom)
    [] dual[1] = "Bottom" -> Some(One)
    [] dual[1] = "Top" -> Some(Zero)
    [] dual[1] = "Zero" -> Some(Top)
    [] dual[1] = "Value" -> None
    [] dual[1] = "Bang" -> Some(Quest(Dual(dual[2])))
    [] dual[1] = "Quest" -> Some(Bang(Dual(dual[2])))
    [] dual[1] = "Dual" -> Some(dual[2])
    [] dual[1] = "Times" -> Some(Par(Dual(dual[2]), Dual(dual[3])))
    [] dual[1] = "Par" -> Some(Times(Dual(dual[2]), Dual(dual[3])))
    [] dual[1] = "With" -> Some(Plus(Dual(dual[2]), Dual(dual[3])))
    [] dual[1] = "Plus" -> Some(With(Dual(dual[2]), Dual(dual[3])))

\* 2^n, as 1_usize.checked_shl(n).
RECURSIVE Shl1(_)
Shl1(n) == IF n = 0 THEN 1 ELSE 2 * Shl1(n - 1)

\* bits & (1 << i) == 0
BitIsZero(bits, i) == (bits \div Shl1(i)) % 2 = 0

\* The occurrences of the context sent to the left (zero = TRUE) or the right
\* (zero = FALSE) half by the bit pattern.
SplitContext(context, bits, zero) ==
  LET it == Multiset_iter_repeat(context)
      RECURSIVE sel(_)
      sel(i) ==
        IF i > Len(it) THEN <<>>
        ELSE (IF BitIsZero(bits, i - 1) = zero THEN <<it[i]>> ELSE <<>>)
             \o sel(i + 1)
  IN  Multiset_from_iter(sel(1), "Ast")

\* A Times arm that forgets the right operand.
TimesRules_lhs_twice(lhs, rhs, context) ==
  <<Rule("Times", <<Sequent_with(context, <<lhs>>),
                    Sequent_with(context, <<lhs>>)>>)>>

\* The Times arm: for every bit pattern, the split and its mirror image.
TimesRules(lhs, rhs, context) ==
  LET power_of_2 == Shl1(Multiset_len(context))
  IN  [k \in 1..(2 * power_of_2) |->
         LET bits == (k - 1) \div 2
             lctx == SplitContext(context, bits, TRUE)
             rctx == SplitContext(context, bits, FALSE)
         IN  IF (k - 1) % 2 = 0
             THEN Rule("Times", <<Sequent_with(lctx, <<lhs>>),
                                  Sequent_with(rctx, <<rhs>>)>>)
             ELSE Rule("Times", <<Sequent_with(rctx, <<lhs>>),
                                  Sequent_with(lctx, <<rhs>>)>>)]

\* A Par arm that splits the operands into two premises.
ParRules_split(lhs, rhs, context) ==
  <<Rule("Par", <<Sequent_with(context, <<lhs>>),
                  Sequent_with(context, <<rhs>>)>>)>>

\* The Par arm: both operands join the context.
ParRules(lhs, rhs, context) ==
  <<Rule("Par", <<Sequent_with(context, <<lhs, rhs>>)>>)>>

\* A With arm that asks for the left operand only.
WithRules_left(lhs, rhs, context) ==
  <<Rule("&", <<Sequent_with(context, <<lhs>>)>>)>>

\* The With arm: one rule, both operands proven in the same context.
WithRules(lhs, rhs, context) ==
  <<Rule("&", <<Sequent_with(context, <<lhs>>),
                Sequent_with(context, <<rhs>>)>>)>>

\* A Plus arm without the right injection.
PlusRules_left(lhs, rhs, context) ==
  <<Rule("+L", <<Sequent_with(context, <<lhs>>)>>)>>

\* The Plus arm: one rule per operand.
PlusRules(lhs, rhs, context) ==
  << Rule("+L", <<Sequent_with(context, <<lhs>>)>>),
     Rule("+R", <<Sequent_with(context, <<rhs>>)>>) >>

\* A Quest arm without contraction.
QuestRules_pruned(arg, context) ==
  << Rule("", <<context>>),
     Rule("", <<Sequent_with(context, <<arg>>)>>) >>

\* The Quest arm: weakening, dereliction and contraction, always all three.
QuestRules(arg, context) ==
  << Rule("", <<context>>),
     Rule("", <<Sequent_with(context, <<arg>>)>>),
     Rule("", <<Sequent_with(context, <<Quest(arg), Quest(arg)>>)>>) >>

\* A generator without the axiom shortcuts and without the arms of the
\* formulas that have no operand.
Infer_above_no_shortcut(self, context) ==
  CASE self[1] = "Quest" -> QuestRules(self[2], context)
    [] self[1] = "Times" -> TimesRules(self[2], self[3], context)
    [] self[1] = "Par" -> ParRules(self[2], self[3], context)
    [] self[1] = "With" -> WithRules(self[2], self[3], context)
    [] self[1] = "Plus" -> PlusRules(self[2], self[3], context)
    [] OTHER -> <<>>

\* A generator that closes every sequent.
Infer_above_always(self, context) == <<Rule("axiom", <<>>)>>

Infer_above(self, context) ==
  IF \/ Multiset_contains(context, Top)
     \/ Multiset_iter_repeat(context) = <<Dual(self)>>
  THEN <<Rule("axiom", <<>>)>>
  ELSE
  CASE self[1] = "Top" -> <<Rule("Top", <<>>)>>
    [] self[1] = "One" /\ Multiset_is_empty(context) -> <<Rule("1", <<>>)>>
    [] /\ self[1] = "Bang"
       /\ IsSome(Multiset_only(context))
       /\ Unwrap(Multiset_only(context))[1] = "Quest"
         -> <<Rule("!", <<Sequent_with(context, <<self[2]>>)>>)>>
    [] /\ self[1] \in {"One", "Zero", "Value", "Bang"}
       /\ ~(self[1] = "One" /\ Multiset_is_empty(context))
       /\ ~(/\ self[1] = "Bang"
            /\ IsSome(Multiset_only(context))
            /\ Unwrap(Multiset_only(context))[1] = "Quest")
         -> <<>>
    [] self[1] = "Bottom" -> <<Rule("", <<context>>)>>
    [] self[1] = "Quest" -> QuestRules(self[2], context)
    [] self[1] = "Dual" ->
         IF IsSome(pushdown(self[2]))
         THEN <<Rule("DeMorgan",
                     <<Sequent_with(context, <<Unwrap(pushdown(self[2]))>>)>>)>>
         ELSE <<>>
    [] self[1] = "Times" -> TimesRules(self[2], self[3], context)
    [] self[1] = "Par" -> ParRules(self[2], self[3], context)
    [] self[1] = "With" -> WithRules(self[2], self[3], context)
    [] self[1] = "Plus" -> PlusRules(self[2], self[3], context)


(***************************************************************************)
(* Thunk: the proof cache.  cache maps every seen sequent to None (queued  *)
(* or in progress) or Some(rule); queue is the smallest-first heap, kept   *)
(* as an ascending sequence (a sequent pushed twice would occur twice);    *)
(* original is the goal sequent.                                           *)
(***************************************************************************)
\* A push that keeps the order of arrival.
Heap_push_back(queue, sequent) == Append(queue, sequent)

\* BinaryHeap<Reverse<S>>::push on the ascending sequence.
Heap_push(queue, sequent) ==
  LET k == Cardinality({i \in 1..Len(queue) :
                          Sequent_cmp(queue[i], sequent) <= 0})
  IN  SubSeq(queue, 1, k) \o <<sequent>> \o SubSeq(queue, k + 1, Len(queue))

\* HashMap::insert.
Map_insert(map, key, value) ==
  [k \in (DOMAIN map) \cup {key} |-> IF k = key THEN value ELSE map[k]]

\* HashMap::remove.
Map_remove(map, key) == [k \in (DOMAIN map) \ {key} |-> map[k]]

\* A push that enqueues whatever it is given.
Thunk_push_always(th, sequent) ==
  [thunk |-> [th EXCEPT !.cache =
                 IF sequent \in DOMAIN th.cache THEN th.cache
                 ELSE Map_insert(th.cache, sequent, None),
               !.queue = Heap_push(th.queue, sequent)],
   result |-> "Ok"]

\* A push that never reports a proven sequent.
Thunk_push_ok(th, sequent) ==
  IF sequent \notin DOMAIN th.cache
  THEN [thunk |-> [th EXCEPT !.cache = Map_insert(th.cache, sequent, None),
                             !.queue = Heap_push(th.queue, sequent)],
        result |-> "Ok"]
  ELSE [thunk |-> th, result |-> "Ok"]

\* A push that enqueues a new sequent without recording it in the cache.
Thunk_push_unseen(th, sequent) ==
  IF sequent \notin DOMAIN th.cache
  THEN [thunk |-> [th EXCEPT !.queue = Heap_push(th.queue, sequent)],
        result |-> "Ok"]
  ELSE IF th.cache[sequent] = None
       THEN [thunk |-> th, result |-> "Ok"]
       ELSE [thunk |-> th, result |-> "AlreadyProven"]

Thunk_push(th, sequent) ==
  IF sequent \notin DOMAIN th.cache
  THEN [thunk |-> [th EXCEPT !.cache = Map_insert(th.cache, sequent, None),
                             !.queue = Heap_push(th.queue, sequent)],
        result |-> "Ok"]
  ELSE IF th.cache[sequent] = None
       THEN [thunk |-> th, result |-> "Ok"]
       ELSE [thunk |-> th, result |-> "AlreadyProven"]

Thunk_new(expression) ==
  LET sequent == from_rhs(expression)
      q == [cache |-> <<>>, queue |-> <<>>, original |-> sequent]
  IN  Thunk_push(q, sequent).thunk

\* A cache that answers without recording anything.
Thunk_cache_forget(th, sequent, proof, debug) ==
  [thunk |-> th,
   result |-> IF sequent = th.original THEN "Qed" ELSE "Ok",
   proof |-> proof]

\* A cache that treats the goal like any other sequent.
Thunk_cache_no_qed(th, sequent, proof, debug) ==
  [thunk |-> [th EXCEPT !.cache = Map_insert(th.cache, sequent, Some(proof))],
   result |-> "Ok", proof |-> proof]

\* Mark a sequent proven.  With debug assertions the two assertion failures
\* are panics; without them the entry is written unconditionally.
Thunk_cache(th, sequent, proof, debug) ==
  IF sequent = th.original
  THEN [thunk |-> th, result |-> "Qed", proof |-> proof]
  ELSE IF sequent \notin DOMAIN th.cache
       THEN IF debug
            THEN [thunk |-> th, result |-> "PanicNeverSeen", proof |-> proof]
            ELSE [thunk |-> [th EXCEPT !.cache =
                               Map_insert(th.cache, sequent, Some(proof))],
                  result |-> "Ok", proof |-> proof]
       ELSE IF debug /\ th.cache[sequent] # None
            THEN [thunk |-> [th EXCEPT !.cache =
                               Map_insert(th.cache, sequent, Some(proof))],
                  result |-> "PanicAlreadyProven", proof |-> proof]
            ELSE [thunk |-> [th EXCEPT !.cache =
                               Map_insert(th.cache, sequent, Some(proof))],
                  result |-> "Ok", proof |-> proof]

\* The cached entry of a sequent.  The lookup is unchecked: a missing key is
\* undefined behaviour, flagged in ub.
Thunk_proven(th, sequent) ==
  [entry |-> IF sequent \in DOMAIN th.cache THEN th.cache[sequent] ELSE None,
   ub |-> sequent \notin DOMAIN th.cache]

\* A variant that returns the rule and leaves the entry in the cache.
Thunk_yank_keep(th, sequent) ==
  IF sequent \notin DOMAIN th.cache
  THEN [thunk |-> th, rule |-> None, ub |-> FALSE]
  ELSE [thunk |-> th,
        rule |-> th.cache[sequent],
        ub |-> th.cache[sequent] = None]

\* Remove the entry of a sequent and return its rule, if there was an entry.
\* Unwrapping an entry that is None is undefined behaviour (ub).
Thunk_yank(th, sequent) ==
  IF sequent \notin DOMAIN th.cache
  THEN [thunk |-> th, rule |-> None, ub |-> FALSE]
  ELSE [thunk |-> [th EXCEPT !.cache = Map_remove(th.cache, sequent)],
        rule |-> th.cache[sequent],
        ub |-> th.cache[sequent] = None]

\* A next that returns the smallest queued sequent and leaves it queued.
Thunk_next_peek(th) ==
  IF th.queue = <<>>
  THEN [thunk |-> th, item |-> None]
  ELSE [thunk |-> th, item |-> Some(Head(th.queue))]

\* impl Iterator for Thunk: pop the smallest queued sequent.
Thunk_next(th) ==
  IF th.queue = <<>>
  THEN [thunk |-> th, item |-> None]
  ELSE [thunk |-> [th EXCEPT !.queue = Tail(th.queue)],
        item |-> Some(Head(th.queue))]

(***************************************************************************)
(* Inference: a rule and the sequent below the line.                       *)
(***************************************************************************)
Inference(rule, below) == [rule |-> rule, below |-> below]

\* An equality that also compares the sequent below the line.
Inference_eq_below(i1, i2) == Rule_eq(i1.rule, i2.rule) /\ i1.below = i2.below

\* impl PartialEq for Inference: only the rules are compared.
Inference_eq(i1, i2) == Rule_eq(i1.rule, i2.rule)

\* A variant that is satisfied by one proven premise.
Inference_proven_any(inf, th) ==
  \/ Len(inf.rule.above) = 0
  \/ \E i \in 1..Len(inf.rule.above) :
        IsSome(Thunk_proven(th, inf.rule.above[i][1]).entry)

\* Every premise has a cached proof.
Inference_proven(inf, th) ==
  \A i \in 1..Len(inf.rule.above) :
     IsSome(Thunk_proven(th, inf.rule.above[i][1]).entry)

\* Some lookup made by Inference_proven is undefined behaviour.
Inference_proven_ub(inf, th) ==
  \E i \in 1..Len(inf.rule.above) :
     Thunk_proven(th, inf.rule.above[i][1]).ub

(***************************************************************************)
(* Tree::connect: stitch the cached rules into a proof tree, consuming     *)
(* each cache entry when it is first met.                                  *)
(***************************************************************************)
RECURSIVE Tree_connect(_, _, _, _)
Tree_connect(below, rule, next, th) ==
  LET RECURSIVE children(_, _)
      children(seqs, t) ==
        IF seqs = <<>> THEN [trees |-> {}, thunk |-> t, ub |-> FALSE]
        ELSE LET sequent == Head(seqs)
                 y == Thunk_yank(t, sequent)
                 child ==
                   IF y.rule = None
                   THEN [tree |-> [above |-> {}, rule |-> "(already proven)",
                                   below |-> sequent],
                         thunk |-> y.thunk, ub |-> y.ub]
                   ELSE Tree_connect(sequent, Unwrap(y.rule).name,
                                     Multiset_iter_repeat(Unwrap(y.rule).above),
                                     y.thunk)
                 rest == children(Tail(seqs), child.thunk)
             IN  [trees |-> {child.tree} \cup rest.trees,
                  thunk |-> rest.thunk,
                  ub |-> child.ub \/ rest.ub]
      c == children(next, th)
  IN  [tree |-> [above |-> c.trees, rule |-> rule, below |-> below],
       thunk |-> c.thunk, ub |-> c.ub]


(***************************************************************************)
(* Bounds of the model and the goal formulas the search is run on.         *)
(***************************************************************************)
\* Largest number of nodes of a generated goal formula.
MaxSize == 3
\* Largest number of sequents one search may pop (the search over ? need
\* not terminate).
MaxPops == 14

Atoms == {One, Bottom, Top, Zero, Value(0)}

RECURSIVE FormulasOfSize(_)
FormulasOfSize(n) ==
  IF n = 1 THEN Atoms
  ELSE {Bang(a) : a \in FormulasOfSize(n - 1)}
       \cup {Quest(a) : a \in FormulasOfSize(n - 1)}
       \cup {Dual(a) : a \in FormulasOfSize(n - 1)}
       \cup UNION {UNION {{Times(a, b), Par(a, b), With(a, b), Plus(a, b)} :
                            a \in FormulasOfSize(i),
                            b \in FormulasOfSize(n - 1 - i)} :
                     i \in 1..(n - 2)}

Generated == UNION {FormulasOfSize(n) : n \in 1..MaxSize}

\* Left-nested a op a op ... op a with n operands.
RECURSIVE NestWith(_, _)
NestWith(a, n) == IF n = 1 THEN a ELSE With(NestWith(a, n - 1), a)

RECURSIVE NestTimes(_, _)
NestTimes(a, n) == IF n = 1 THEN a ELSE Times(NestTimes(a, n - 1), a)

\* The formulas of the test suites (src/test.rs and the tests of
\* examples/classical_linear_logic.rs).
TestSuite ==
  { Zero, One, Top, Par(Zero, Top), Lollipop(Zero, Zero),
    Plus(Zero, One), Plus(One, Zero),
    With(One, One), With(Zero, One), With(One, Zero),
    Lollipop(With(Value(0), Value(1)), Value(0)),
    Lollipop(With(Value(0), Value(1)), Value(1)),
    Lollipop(Bottom, Bottom),
    Times(One, One), Times(One, Zero), Times(Zero, One), Times(Zero, Zero),
    Lollipop(One, Lollipop(One, Lollipop(One, Lollipop(One, Times(One, One))))),
    Par(Value(0), Dual(Value(0))),
    Plus(Value(0), Dual(Value(0))),
    With(Value(0), Dual(Value(0))) }
  \cup {NestWith(One, n) : n \in 2..5}
  \cup {NestTimes(One, n) : n \in 2..5}

\* phi^T par phi for the small formulas, and a few goals beyond MaxSize: in
\* some one sequent has several rules that close at different times, in the
\* others contraction puts Times or Bang next to several other formulas, or
\* a connective of two operands is under a Dual or next to another formula.
Larger ==
  {Par(Dual(f), f) : f \in FormulasOfSize(1) \cup FormulasOfSize(2)}
  \cup { Times(Zero, Plus(One, Top)),
         With(Plus(One, Top), Zero),
         Plus(With(One, One), Dual(Dual(One))),
         With(Par(Zero, Top), Zero),
         With(Top, Quest(Bang(One))),
         With(Plus(Top, Zero), Plus(Top, Bottom)),
         Quest(Times(One, Bottom)),
         Quest(Times(Bottom, Bottom)),
         Quest(Bang(Dual(Value(0)))),
         Dual(Times(One, One)),
         Dual(Par(One, Bottom)),
         Dual(Plus(One, Zero)),
         Par(Bottom, With(One, One)),
         With(Par(One, Bottom), Par(Bottom, One)) }

Goals == Generated \cup TestSuite \cup Larger

(***************************************************************************)
(* The search driver, prove, after the algorithm of the specification      *)
(* (section 4.3).  The pending set is keyed by the rule alone (the Hash    *)
(* and PartialEq of Inference); a hash set has no iteration order of its   *)
(* own.  The set done is local to one iteration of the main loop: were it  *)
(* kept across iterations, a second premise-free inference would count as  *)
(* done before it was ever closed.                                         *)
(***************************************************************************)
VARIABLES
  expression,        \* the formula handed to prove
  debug_assertions,  \* whether the build checks the cache's assertions
  thunk,             \* the proof cache
  paused,            \* pending inferences, at most one per premise multiset
  done,              \* pending inferences closed in the current iteration
  current,           \* the sequent popped in the current iteration
  pc,                \* position of the driver
  popped,            \* the sequents popped so far, in order
  outcome,           \* "Running", "Success", "RanOutOfPaths" or a panic
  tree,              \* the proof tree returned on success
  replay,            \* what a second call of prove is given, if any
  first,             \* the result of the first call, once a second has begun
  m1,                \* a multiset of formulas worked on by its own methods
  m2,                \* a second one, to compare the first with
  tally,             \* per multiset: inserts, true takes, occurrences due
  last,              \* the last method call on m1 or m2 and what it returned
  seen,              \* older search: turnstile -> "True", "False", "Unknown"
  paths,             \* older search: the queue of traces, smallest first
  paused_splits,     \* older search: the splits that wait for their premises
  tested,            \* older search: the turnstiles popped so far, in order
  verdict,           \* older search: "Running", "Ok", "RanOutOfPaths", ...
  reached            \* older search: the truth of the chain that reached the
                     \* original turnstile, once one has

\* The state of a call of prove.
search == <<expression, debug_assertions, thunk, paused, done, current, pc,
            popped, outcome, tree, replay, first>>

\* The state of the two multisets that are worked on directly.
bench == <<m1, m2, tally, last>>

\* The state of a call of the older Ast::prove of proof.rs.
older == <<seen, paths, paused_splits, tested, verdict, reached>>

vars == <<search, bench, older>>

\* The older search is not called.
OlderIdle ==
  /\ seen = <<>>
  /\ paths = <<>>
  /\ paused_splits = {}
  /\ tested = <<>>
  /\ verdict = "Idle"
  /\ reached = None

\* The formulas the two multisets are filled with.
BenchElements == {One, Value(0), Par(One, Bottom)}

\* Multiset::new() twice, and no call made yet.
BenchNew ==
  /\ m1 = Multiset_new
  /\ m2 = Multiset_new
  /\ tally = [side \in {"m1", "m2"} |->
                [inserts |-> 0, takes |-> 0,
                 due |-> [e \in BenchElements |-> 0]]]
  /\ last = [op |-> "new"]

\* Concatenation of a sequence of sequences.
RECURSIVE Flatten(_)
Flatten(ss) == IF ss = <<>> THEN <<>> ELSE Head(ss) \o Flatten(Tail(ss))

\* Every candidate rule of a sequent: each principal formula in sample
\* order, each rule in generator order.
Candidates(sequent) ==
  LET samples == Sequent_sample(sequent)
  IN  Flatten([i \in 1..Len(samples) |->
                 Infer_above(samples[i].item, samples[i].context)])

\* Insert into the set of pending inferences: an inference equal to one
\* already present (same premises) is not added.
Paused_insert(set, inf) ==
  IF \E other \in set : Inference_eq(other, inf) THEN set ELSE set \cup {inf}

RECURSIVE Paused_insert_all(_, _, _)
Paused_insert_all(set, rules, below) ==
  IF rules = <<>> THEN set
  ELSE Paused_insert_all(Paused_insert(set, Inference(Head(rules), below)),
                         Tail(rules), below)

\* impl Extend for Thunk: push every sequent, ignoring the results.
RECURSIVE Thunk_extend(_, _)
Thunk_extend(th, sequents) ==
  IF sequents = <<>> THEN th
  ELSE Thunk_extend(Thunk_push(th, Head(sequents)).thunk, Tail(sequents))

\* The premises of a list of rules, in the order they are pushed.
Premises(rules) ==
  Flatten([i \in 1..Len(rules) |-> Multiset_iter_repeat(rules[i].above)])

\* A pending inference the sweep would close now.
Closable(inf) ==
  /\ inf \notin done
  /\ Inference_proven(inf, thunk) \/ Inference_proven_ub(inf, thunk)

\* The state of a call of prove on entry.
Start(e) ==
  /\ thunk = Thunk_new(e)
  /\ paused = {}
  /\ done = {}
  /\ current = None
  /\ pc = "pop"
  /\ popped = <<>>
  /\ outcome = "Running"
  /\ tree = None

Init ==
  /\ expression \in Goals
  /\ debug_assertions \in BOOLEAN
  /\ replay = "none"
  /\ first = None
  /\ Start(expression)
  /\ BenchNew
  /\ OlderIdle

\* while let Some(current) = thunk.next()
Pop ==
  /\ pc = "pop"
  /\ Len(popped) < MaxPops
  /\ IsSome(Thunk_next(thunk).item)
  /\ current' = Thunk_next(thunk).item
  /\ thunk' = Thunk_next(thunk).thunk
  /\ done' = {}
  /\ popped' = Append(popped, Unwrap(Thunk_next(thunk).item))
  /\ pc' = "expand"
  /\ UNCHANGED <<expression, debug_assertions, paused, outcome, tree, replay,
                 first>>
  /\ UNCHANGED <<bench, older>>

\* The queue is empty: Err(RanOutOfPaths).
RanOutOfPaths ==
  /\ pc = "pop"
  /\ Thunk_next(thunk).item = None
  /\ outcome' = "RanOutOfPaths"
  /\ pc' = "done"
  /\ UNCHANGED <<expression, debug_assertions, thunk, paused, done, current,
                 popped, tree, replay, first>>
  /\ UNCHANGED <<bench, older>>

\* Every candidate rule of the popped sequent becomes a pending inference
\* and its premises are pushed.
Expand ==
  /\ pc = "expand"
  /\ LET rules == Candidates(Unwrap(current))
     IN  /\ paused' = Paused_insert_all(paused, rules, Unwrap(current))
         /\ thunk' = Thunk_extend(thunk, Premises(rules))
  /\ pc' = "sweep"
  /\ UNCHANGED <<expression, debug_assertions, done, current, popped,
                 outcome, tree, replay, first>>
  /\ UNCHANGED <<bench, older>>

\* One visit of the sweep that finds a pending inference with all premises
\* proven and caches its conclusion.  The set of pending inferences has no
\* order of its own: any such inference may be the next one visited.  When
\* the reconstruction unwraps an entry that holds no rule, the build may
\* return a tree all the same or fail in any other way.
Sweep ==
  /\ pc = "sweep"
  /\ \E inf \in paused :
       /\ Closable(inf)
       /\ LET c == IF Inference_proven_ub(inf, thunk)
                   THEN [thunk |-> thunk, result |-> "Undefined"]
                   ELSE Thunk_cache(thunk, inf.below, inf.rule,
                                    debug_assertions)
          IN  CASE c.result = "Ok" ->
                     /\ thunk' = c.thunk
                     /\ done' = done \cup {inf}
                     /\ UNCHANGED <<pc, outcome, tree>>
                [] c.result = "Qed" ->
                     LET t == Tree_connect(thunk.original, c.proof.name,
                                           Multiset_iter_repeat(c.proof.above),
                                           thunk)
                     IN  /\ thunk' = t.thunk
                         /\ tree' = Some(t.tree)
                         /\ outcome' \in IF t.ub
                                          THEN {"Success", "Undefined"}
                                          ELSE {"Success"}
                         /\ pc' = "done"
                         /\ UNCHANGED done
                [] c.result \in {"PanicNeverSeen", "PanicAlreadyProven",
                                 "Undefined"} ->
                     /\ thunk' = c.thunk
                     /\ outcome' = c.result
                     /\ pc' = "done"
                     /\ UNCHANGED <<done, tree>>
  /\ UNCHANGED <<expression, debug_assertions, paused, current, popped,
                 replay, first>>
  /\ UNCHANGED <<bench, older>>

\* The sweep made a pass without progress: drop what was closed and loop.
SweepEnd ==
  /\ pc = "sweep"
  /\ ~\E inf \in paused : Closable(inf)
  /\ paused' = paused \ done
  /\ pc' = "pop"
  /\ UNCHANGED <<expression, debug_assertions, thunk, done, current, popped,
                 outcome, tree, replay, first>>
  /\ UNCHANGED <<bench, older>>

Next == Pop \/ RanOutOfPaths \/ Expand \/ Sweep \/ SweepEnd

Spec == Init /\ [][Next]_vars

(***************************************************************************)
(* Two calls of prove in a row, each on a fresh cache: the second is given *)
(* the same formula again, or its double dual.                             *)
(***************************************************************************)
\* Largest number of nodes of a generated formula that is proven twice.
MaxReplaySize == 3

ReplayGoals ==
  UNION {FormulasOfSize(n) : n \in 1..MaxReplaySize} \cup TestSuite \cup Larger

InitReplay ==
  /\ expression \in ReplayGoals
  /\ debug_assertions \in BOOLEAN
  /\ replay \in {"same", "dual dual"}
  /\ first = None
  /\ Start(expression)
  /\ BenchNew
  /\ OlderIdle

\* The first call has returned: keep what it returned and call prove again.
Again ==
  /\ pc = "done"
  /\ replay # "none"
  /\ first = None
  /\ first' = Some([expression |-> expression, outcome |-> outcome,
                    tree |-> tree, popped |-> popped])
  /\ expression' = IF replay = "same" THEN expression
                    ELSE Dual(Dual(expression))
  /\ thunk' = Thunk_new(expression')
  /\ paused' = {}
  /\ done' = {}
  /\ current' = None
  /\ pc' = "pop"
  /\ popped' = <<>>
  /\ outcome' = "Running"
  /\ tree' = None
  /\ UNCHANGED <<debug_assertions, replay>>
  /\ UNCHANGED <<bench, older>>

NextReplay == Pop \/ RanOutOfPaths \/ Expand \/ Sweep \/ SweepEnd \/ Again

SpecReplay == InitReplay /\ [][NextReplay]_vars

(***************************************************************************)
(* Properties of the search.                                               *)
(***************************************************************************)
Returned == pc = "done"

Goal == from_rhs(expression)

\* There is a derivation of the sequent of height at most d: some candidate
\* rule of the sequent has all its premises derivable with height d - 1.
RECURSIVE Derivable(_, _)
Derivable(sequent, d) ==
  /\ d > 0
  /\ LET rules == Candidates(sequent)
     IN  \E i \in 1..Len(rules) :
           \A j \in 1..Len(rules[i].above) :
              Derivable(rules[i].above[j][1], d - 1)

\* C1: soundness.  Whenever prove returns Success the goal sequent has a
\* finite derivation in which every step is a candidate rule of that step's
\* conclusion and every leaf is a rule without premises.
Soundness ==
  (Returned /\ outcome = "Success") =>
     \E d \in 1..(MaxPops + 1) : Derivable(Goal, d)

\* A success whose derivation needs several sequents.
SoundnessWitness ==
  /\ Returned
  /\ outcome = "Success"
  /\ Len(popped) >= 5
  /\ \E d \in 1..(MaxPops + 1) : Derivable(Goal, d)

\* The search was stopped by the bound on pops before it could return.
CutOff == pc = "pop" /\ Len(popped) >= MaxPops /\ thunk.queue # <<>>

\* C2: prove has exactly two outcomes, both returned as values: Success,
\* with a tree, and Failure(RanOutOfPaths), returned when the queue is empty.
TwoOutcomes ==
  Returned =>
     \/ outcome = "Success" /\ IsSome(tree)
     \/ outcome = "RanOutOfPaths" /\ thunk.queue = <<>>

\* C3: axiom closure.  A sequent containing Top is proven in the iteration
\* that expands it (or the search has returned Success by then), and
\* prove(Par(Dual(phi), phi)) returns Success, after two pops, for every phi.
AxiomClosure ==
  /\ (/\ pc \in {"pop", "done"}
      /\ IsSome(current)
      /\ Multiset_contains(Unwrap(current), Top))
       => \/ outcome = "Success"
          \/ /\ Unwrap(current) \in DOMAIN thunk.cache
             /\ IsSome(thunk.cache[Unwrap(current)])
  /\ (expression[1] = "Par" /\ expression[2] = Dual(expression[3]))
       => /\ Len(popped) <= 2
          /\ ~CutOff
          /\ Returned => outcome = "Success"

\* A sequent of two formulas, one of them Top, proven by the iteration that
\* expanded it, in a search that goes on.
AxiomClosureWitness ==
  /\ pc = "pop"
  /\ current = Some(Sequent_with(Multiset_new, <<Zero, Top>>))
  /\ IsSome(thunk.cache[Unwrap(current)])
  /\ expression = With(Par(Zero, Top), Zero)

\* C6: unit scenarios.  prove(Zero) fails with RanOutOfPaths; prove(One),
\* prove(Top) and prove(Par(Zero, Top)) succeed, the last because the
\* sequent reached from the goal contains Top and closes without premises.
UnitScenarios ==
  /\ expression \in {Zero, One, Top, Par(Zero, Top)} => ~CutOff
  /\ Returned =>
       /\ expression = Zero => outcome = "RanOutOfPaths"
       /\ expression \in {One, Top, Par(Zero, Top)} => outcome = "Success"
       /\ expression = Par(Zero, Top) =>
            \A child \in Unwrap(tree).above :
               /\ child.above = {}
               /\ Multiset_contains(child.below, Top)

UnitScenariosWitness ==
  /\ Returned
  /\ expression = Par(Zero, Top)
  /\ outcome = "Success"
  /\ Unwrap(tree).above # {}

BothOne(e) == e[2] = One /\ e[3] = One

OverZeroOne(e) == e[2] \in {Zero, One} /\ e[3] \in {Zero, One}

\* C7: for a, b in {Zero, One}, prove(With(a, b)) succeeds iff a = b = One
\* and fails with RanOutOfPaths otherwise; the left-nested With of two to
\* five One's succeeds.
WithScenarios ==
  /\ (expression[1] = "With" /\ OverZeroOne(expression)) =>
       /\ ~CutOff
       /\ Returned =>
            outcome = IF BothOne(expression) THEN "Success"
                      ELSE "RanOutOfPaths"
  /\ \A n \in 2..5 :
       expression = NestWith(One, n) =>
          /\ ~CutOff
          /\ Returned => outcome = "Success"

WithScenariosWitness ==
  /\ Returned
  /\ expression = NestWith(One, 5)
  /\ outcome = "Success"
  /\ Len(popped) = 5

\* C8: for a, b in {Zero, One}, prove(Plus(a, b)) succeeds iff at least one
\* of a, b is One, whichever side it is on.
PlusScenarios ==
  (expression[1] = "Plus" /\ OverZeroOne(expression)) =>
     /\ ~CutOff
     /\ Returned =>
          outcome = IF expression[2] = One \/ expression[3] = One
                    THEN "Success" ELSE "RanOutOfPaths"

PlusScenariosWitness ==
  /\ Returned
  /\ expression = Plus(Zero, One)
  /\ outcome = "Success"

\* C9: for a, b in {Zero, One}, prove(Times(a, b)) succeeds iff a = b = One
\* and fails with RanOutOfPaths otherwise; the left-nested Times of two to
\* five One's succeeds.
TimesScenarios ==
  /\ (expression[1] = "Times" /\ OverZeroOne(expression)) =>
       /\ ~CutOff
       /\ Returned =>
            outcome = IF BothOne(expression) THEN "Success"
                      ELSE "RanOutOfPaths"
  /\ \A n \in 2..5 :
       expression = NestTimes(One, n) =>
          /\ ~CutOff
          /\ Returned => outcome = "Success"

TimesScenariosWitness ==
  /\ Returned
  /\ expression = NestTimes(One, 5)
  /\ outcome = "Success"
  /\ Len(popped) = 5

\* C10: excluded middle holds only multiplicatively.  prove(Par(Value(0),
\* Dual(Value(0)))) succeeds; prove(Plus(Value(0), Dual(Value(0)))) and
\* prove(With(Value(0), Dual(Value(0)))) fail with RanOutOfPaths.
ExcludedMiddle ==
  /\ expression \in {Par(Value(0), Dual(Value(0))),
                     Plus(Value(0), Dual(Value(0))),
                     With(Value(0), Dual(Value(0)))} => ~CutOff
  /\ Returned =>
       /\ expression = Par(Value(0), Dual(Value(0))) => outcome = "Success"
       /\ expression \in {Plus(Value(0), Dual(Value(0))),
                          With(Value(0), Dual(Value(0)))}
            => outcome = "RanOutOfPaths"

ExcludedMiddleWitness ==
  /\ Returned
  /\ expression = Plus(Value(0), Dual(Value(0)))
  /\ outcome = "RanOutOfPaths"
  /\ Len(popped) = 3

\* Both calls of a replay have returned.
BothReturned == IsSome(first) /\ Returned

\* C4: involution of dual at the search level.  prove(phi) and
\* prove(Dual(Dual(phi))) return the same outcome.
DualInvolution ==
  (replay = "dual dual" /\ BothReturned) =>
     outcome = Unwrap(first).outcome

\* C5: determinism.  Two runs of prove on the same formula pop the same
\* sequents in the same order and return the same outcome and the same tree
\* (the candidate rules of a popped sequent, and with them the order of the
\* Times splits, are a function of the sequent).
Determinism ==
  (replay = "same" /\ BothReturned) =>
     /\ popped = Unwrap(first).popped
     /\ outcome = Unwrap(first).outcome
     /\ tree = Unwrap(first).tree

LollipopGoals ==
  { Lollipop(Zero, Zero),
    Lollipop(Bottom, Bottom),
    Lollipop(With(Value(0), Value(1)), Value(0)),
    Lollipop(With(Value(0), Value(1)), Value(1)),
    Lollipop(One, Lollipop(One, Lollipop(One, Lollipop(One, Times(One, One))))) }

\* C11: linear implication scenarios.  With lollipop(A, B) = Par(Dual(A), B),
\* prove returns Success for lollipop(Zero, Zero), lollipop(Bottom, Bottom),
\* lollipop(With(Value(0), Value(1)), Value(i)) for i = 0, 1, and the chain
\* lollipop(One, lollipop(One, lollipop(One, lollipop(One, Times(One, One))))).
LollipopScenarios ==
  expression \in LollipopGoals =>
     /\ ~CutOff
     /\ Returned => outcome = "Success"

\* The chain of four implications proven, after thirteen pops.
LollipopScenariosWitness ==
  /\ Returned
  /\ expression =
       Lollipop(One, Lollipop(One, Lollipop(One, Lollipop(One, Times(One, One)))))
  /\ outcome = "Success"
  /\ Len(popped) = 13

\* The elements of a sequence.
Range(seq) == {seq[i] : i \in 1..Len(seq)}

\* No element occurs twice in the sequence.
Distinct(seq) == \A i, j \in 1..Len(seq) : seq[i] = seq[j] => i = j

\* C12: within one call of prove every sequent is added to the queue at most
\* once, hence popped and expanded at most once: the sequents popped so far
\* followed by the sequents still queued never hold the same sequent twice.
EnqueuedOnce == Distinct(popped \o thunk.queue)

\* The premises of the sequent being expanded include one that was popped
\* before: it has been pushed again and is not in the queue.
EnqueuedOnceWitness ==
  /\ pc = "sweep"
  /\ \E p \in Range(Premises(Candidates(Unwrap(current)))) :
        /\ p \in Range(popped)
        /\ p \notin Range(thunk.queue)
  /\ Len(thunk.queue) >= 2

\* C13: every entry changes from None to Some at most once.  The driver
\* never calls cache for a sequent other than the goal that is absent from
\* the cache or already proven (every pending inference the sweep may visit
\* next has an unproven conclusion), and no assertion of cache fires.
CachedOnce ==
  /\ outcome \notin {"PanicNeverSeen", "PanicAlreadyProven"}
  /\ pc = "sweep" =>
       \A inf \in paused :
          (Closable(inf) /\ inf.below # thunk.original) =>
             /\ inf.below \in DOMAIN thunk.cache
             /\ thunk.cache[inf.below] = None

\* The search is running or has failed: no entry has been consumed by the
\* reconstruction.
CacheIntact == outcome \notin {"Success", "Undefined"}

\* C14: proven-premise invariant.  While the search runs, for every sequent
\* with entry Some(r) every premise of r is in the cache with a Some entry.
ProvenPremises ==
  CacheIntact =>
     \A s \in DOMAIN thunk.cache :
        IsSome(thunk.cache[s]) =>
           \A p \in Range(Multiset_iter_unique(Unwrap(thunk.cache[s]).above)) :
              p \in DOMAIN thunk.cache /\ IsSome(thunk.cache[p])

\* A proven sequent whose rule has a premise that was itself proven from a
\* premise.
ProvenPremisesWitness ==
  /\ CacheIntact
  /\ \E s \in DOMAIN thunk.cache :
        /\ IsSome(thunk.cache[s])
        /\ \E p \in Range(Multiset_iter_unique(Unwrap(thunk.cache[s]).above)) :
              /\ p \in DOMAIN thunk.cache
              /\ IsSome(thunk.cache[p])
              /\ Unwrap(thunk.cache[p]).above # <<>>

\* The sequents the driver is about to push (the premises of the candidate
\* rules of the sequent being expanded) and the sequents seen so far.
PushProbes ==
  (DOMAIN thunk.cache)
  \cup (IF pc = "expand"
        THEN Range(Premises(Candidates(Unwrap(current)))) ELSE {})

\* The sequence without its i-th element.
Without(seq, i) == SubSeq(seq, 1, i - 1) \o SubSeq(seq, i + 1, Len(seq))

\* C15: push has three cases.  A sequent not in the cache is inserted with
\* None, enqueued, and Ok is returned; on an entry None, Ok is returned and
\* nothing changes; on an entry Some, AlreadyProven is returned and nothing
\* changes.
PushCases ==
  \A s \in PushProbes :
     LET r == Thunk_push(thunk, s)
     IN  IF s \notin DOMAIN thunk.cache
         THEN /\ r.result = "Ok"
              /\ DOMAIN r.thunk.cache = (DOMAIN thunk.cache) \cup {s}
              /\ r.thunk.cache[s] = None
              /\ \A k \in DOMAIN thunk.cache :
                    r.thunk.cache[k] = thunk.cache[k]
              /\ \E i \in 1..Len(r.thunk.queue) :
                    /\ r.thunk.queue[i] = s
                    /\ Without(r.thunk.queue, i) = thunk.queue
              /\ r.thunk.original = thunk.original
         ELSE IF thunk.cache[s] = None
              THEN r.result = "Ok" /\ r.thunk = thunk
              ELSE r.result = "AlreadyProven" /\ r.thunk = thunk

\* The driver is about to push a sequent it has not seen, one that is seen
\* and unproven, and one that is proven.
PushCasesWitness ==
  /\ pc = "expand"
  /\ \E s1, s2, s3 \in Range(Premises(Candidates(Unwrap(current)))) :
        /\ s1 \notin DOMAIN thunk.cache
        /\ s2 \in DOMAIN thunk.cache /\ thunk.cache[s2] = None
        /\ s3 \in DOMAIN thunk.cache /\ IsSome(thunk.cache[s3])

\* C16: pop removes and returns a sequent that is minimal among the queued
\* sequents under the sequent order (fewest formula occurrences first, then
\* the order of the multiset contents) and returns None iff the queue is
\* empty; the sequent being expanded is no larger than any queued sequent.
PopMinimal ==
  LET n == Thunk_next(thunk)
  IN  /\ n.item = None <=> thunk.queue = <<>>
      /\ n.thunk.cache = thunk.cache
      /\ IsSome(n.item) =>
           /\ \A q \in Range(thunk.queue) :
                 /\ Sequent_cmp(Unwrap(n.item), q) <= 0
                 /\ Multiset_len(Unwrap(n.item)) <= Multiset_len(q)
           /\ \E i \in 1..Len(thunk.queue) :
                 /\ thunk.queue[i] = Unwrap(n.item)
                 /\ Without(thunk.queue, i) = n.thunk.queue
      /\ pc = "expand" =>
           \A q \in Range(thunk.queue) :
              /\ Sequent_cmp(Unwrap(current), q) < 0
              /\ Multiset_len(Unwrap(current)) <= Multiset_len(q)

\* A sequent has just been popped while a sequent of the same size and a
\* larger one stay queued.
PopMinimalWitness ==
  /\ pc = "expand"
  /\ \E q1, q2 \in Range(thunk.queue) :
        /\ Multiset_len(q1) = Multiset_len(Unwrap(current))
        /\ Multiset_len(q2) > Multiset_len(Unwrap(current))
  /\ Unwrap(current) # thunk.original

\* C17: cache(sequent, rule), on every call the sweep may make next.  For
\* the goal it returns Qed(rule) and changes nothing; for any other sequent
\* it returns Ok and changes only that sequent's entry, from None to
\* Some(rule).
CacheFrame ==
  pc = "sweep" =>
     \A inf \in paused :
        Closable(inf) =>
           LET c == Thunk_cache(thunk, inf.below, inf.rule, debug_assertions)
           IN  IF inf.below = thunk.original
               THEN /\ c.result = "Qed"
                    /\ c.proof = inf.rule
                    /\ c.thunk = thunk
                    /\ thunk.cache[inf.below] = None
               ELSE /\ c.result = "Ok"
                    /\ inf.below \in DOMAIN thunk.cache
                    /\ thunk.cache[inf.below] = None
                    /\ c.thunk.cache =
                         [k \in DOMAIN thunk.cache |->
                            IF k = inf.below THEN Some(inf.rule)
                            ELSE thunk.cache[k]]
                    /\ c.thunk.queue = thunk.queue
                    /\ c.thunk.original = thunk.original

\* One call of prove on a formula of the test suites or on one of the larger
\* goals.
InitFair ==
  /\ expression \in TestSuite \cup Larger
  /\ debug_assertions \in BOOLEAN
  /\ replay = "none"
  /\ first = None
  /\ Start(expression)
  /\ BenchNew
  /\ OlderIdle

\* prove is sequential code: while it has not returned, its next step is
\* taken.  Weak fairness of each step; for Expand and Sweep it is written
\* out, []<>(not enabled) \/ []<>(step taken), with the step's guard in the
\* place of ENABLED.
SpecFair ==
  /\ InitFair
  /\ [][Next]_vars
  /\ WF_vars(Pop)
  /\ WF_vars(RanOutOfPaths)
  /\ WF_vars(SweepEnd)
  /\ \/ []<>(pc # "expand")
     \/ []<><<Expand>>_vars
  /\ \/ []<>(~(pc = "sweep" /\ \E inf \in paused : Closable(inf)))
     \/ []<><<Sweep>>_vars

\* Neither ! nor ? occurs in the formula: no contraction is ever a candidate,
\* so the sequents reachable from the goal are finitely many.
RECURSIVE NoExponential(_)
NoExponential(a) ==
  /\ a[1] \notin {"Bang", "Quest"}
  /\ a[1] # "Value" => \A i \in 2..Len(a) : NoExponential(a[i])

\* A visit of the sweep that does not return closes a pending inference that
\* was not done yet.
SweepProgress ==
  [][(pc = "sweep" /\ pc' = "sweep") =>
        /\ done \subseteq done'
        /\ done' # done
        /\ done' \subseteq paused]_vars

\* C18: termination.  For a goal whose reachable sequents are finitely many
\* prove eventually returns Success or Failure(RanOutOfPaths), and every
\* visit of the sweep that goes on closes a pending inference not yet done.
Termination ==
  /\ NoExponential(expression) =>
        <>(Returned /\ outcome \in {"Success", "RanOutOfPaths"})
  /\ SweepProgress

\* Every node of a tree: the tree itself and the nodes of its children.
RECURSIVE TreeNodes(_)
TreeNodes(t) == {t} \cup UNION {TreeNodes(c) : c \in t.above}

\* The nodes above the root.
ProperNodes(t) == UNION {TreeNodes(c) : c \in t.above}

AlreadyProven == "(already proven)"

\* The sequents that reconstruction expanded into a subtree above the root.
Expanded(t) == {n.below : n \in {m \in ProperNodes(t) : m.rule # AlreadyProven}}

\* C19: reconstruction consumes each cached rule at most once.  On the step
\* that returns Success the root of the tree is the goal with the name of
\* the rule that closed it; every sequent expanded above the root carries the
\* name of its cached rule, is expanded in one place only and has left the
\* cache; every "(already proven)" leaf is a sequent expanded elsewhere in
\* the tree, found absent from the cache; nothing else leaves the cache.
ReconstructOnce ==
  [][(pc = "sweep" /\ pc' = "done" /\ outcome' = "Success") =>
       LET t == Unwrap(tree')
       IN  /\ t.below = thunk.original
           /\ \E inf \in paused :
                /\ Closable(inf)
                /\ inf.below = thunk.original
                /\ t.rule = inf.rule.name
                /\ {c.below : c \in t.above} =
                     Range(Multiset_iter_unique(inf.rule.above))
           /\ \A n \in ProperNodes(t) :
                IF n.rule = AlreadyProven
                THEN /\ n.above = {}
                     /\ n.below \in Expanded(t)
                ELSE /\ n.below \in DOMAIN thunk.cache
                     /\ IsSome(thunk.cache[n.below])
                     /\ n.rule = Unwrap(thunk.cache[n.below]).name
                     /\ {c.below : c \in n.above} =
                          Range(Multiset_iter_unique(
                                  Unwrap(thunk.cache[n.below]).above))
                     /\ \A m \in ProperNodes(t) :
                          (m.below = n.below /\ m.rule # AlreadyProven)
                             => m = n
           /\ DOMAIN thunk'.cache = DOMAIN thunk.cache \ Expanded(t)
           /\ \A k \in DOMAIN thunk'.cache : thunk'.cache[k] = thunk.cache[k]
           /\ thunk'.queue = thunk.queue
           /\ thunk'.original = thunk.original]_vars

\* A returned tree with an "(already proven)" leaf: its sequent was met a
\* second time.
ReconstructOnceWitness ==
  /\ Returned
  /\ outcome = "Success"
  /\ \E n \in ProperNodes(Unwrap(tree)) :
        /\ n.rule = AlreadyProven
        /\ n.below \in Expanded(Unwrap(tree))
        /\ n.below \notin DOMAIN thunk.cache

\* C20: every node of the returned tree has one child per premise occurrence
\* of the rule used at the node (a premise that occurs twice counts twice),
\* and a node has no children iff its rule has no premises or it is an
\* "(already proven)" leaf.
OneChildPerPremise ==
  (Returned /\ outcome = "Success") =>
     \A n \in TreeNodes(Unwrap(tree)) :
        IF n.rule = AlreadyProven
        THEN n.above = {}
        ELSE \E i \in 1..Len(Candidates(n.below)) :
                LET r == Candidates(n.below)[i]
                    premises == Multiset_iter_repeat(r.above)
                IN  /\ r.name = n.rule
                    /\ {c.below : c \in n.above} = Range(premises)
                    /\ Cardinality(n.above) = Len(premises)
                    /\ n.above = {} <=> premises = <<>>

(***************************************************************************)
(* The generator, on the calls the search makes: when a sequent is         *)
(* expanded, above is called once for each distinct formula of the sequent *)
(* with the rest of the sequent as its context.                            *)
(***************************************************************************)
GenCalls ==
  IF pc = "expand" THEN Range(Sequent_sample(Unwrap(current))) ELSE {}

\* The number of occurrences of a formula in a multiset, and in a list.
Count(ms, x) ==
  IF \E i \in 1..Len(ms) : ms[i][1] = x
  THEN ms[CHOOSE i \in 1..Len(ms) : ms[i][1] = x][2]
  ELSE 0

Occ(seq, x) == Cardinality({i \in 1..Len(seq) : seq[i] = x})

Elems(ms) == {ms[i][1] : i \in 1..Len(ms)}

\* result is the multiset ms with the formulas of the list adds added.
IsPlus(result, ms, adds) ==
  \A x \in Elems(result) \cup Elems(ms) \cup Range(adds) :
     Count(result, x) = Count(ms, x) + Occ(adds, x)

\* The premise occurrences of a rule, as a list of sequents.
PremiseList(r) == Multiset_iter_repeat(r.above)

\* Neither axiom shortcut applies to the call.
NoShortcut(item, context) ==
  /\ Count(context, Top) = 0
  /\ ~(Elems(context) = {Dual(item)} /\ Count(context, Dual(item)) = 1)

\* s holds the occurrences it[i], i in A, of the context and one more extra.
IsHalf(s, it, A, extra) ==
  \A x \in Elems(s) \cup Range(it) \cup {extra} :
     Count(s, x) = Cardinality({i \in A : it[i] = x})
                   + (IF x = extra THEN 1 ELSE 0)

\* r has the two premises that send the occurrences A with phi and the
\* occurrences B with psi.
IsSplit(r, it, A, B, phi, psi) ==
  LET ps == PremiseList(r)
  IN  /\ Len(ps) = 2
      /\ \E j \in 1..2 : IsHalf(ps[j], it, A, phi) /\ IsHalf(ps[3 - j], it, B, psi)

\* C21: Times enumeration.  For principal Times(phi, psi) and a context of n
\* occurrences, with no axiom shortcut, the rules are, for every bit pattern
\* b in [0, 2^n) in turn, the split by the bits of b and its mirror image;
\* every rule has two premise occurrences whose contexts make up the context,
\* and every split with both side assignments is among the rules.
TimesEnumeration ==
  \A p \in GenCalls :
     (p.item[1] = "Times" /\ NoShortcut(p.item, p.context)) =>
        LET rules == Infer_above(p.item, p.context)
            it == Multiset_iter_repeat(p.context)
            n == Len(it)
            phi == p.item[2]
            psi == p.item[3]
        IN  /\ Len(rules) = 2 * (2 ^ n)
            /\ \A b \in 0..((2 ^ n) - 1) :
                  LET L == {i \in 1..n : (b \div (2 ^ (i - 1))) % 2 = 0}
                      R == (1..n) \ L
                  IN  /\ IsSplit(rules[2 * b + 1], it, L, R, phi, psi)
                      /\ IsSplit(rules[2 * b + 2], it, R, L, phi, psi)
            /\ \A k \in 1..Len(rules) :
                  \E A \in SUBSET (1..n) :
                     IsSplit(rules[k], it, A, (1..n) \ A, phi, psi)
            /\ \A A \in SUBSET (1..n) :
                  \E k \in 1..Len(rules) :
                     IsSplit(rules[k], it, A, (1..n) \ A, phi, psi)

\* Times is principal with at least two context occurrences, two of them
\* different formulas.
TimesEnumerationWitness ==
  \E p \in GenCalls :
     /\ p.item[1] = "Times"
     /\ NoShortcut(p.item, p.context)
     /\ Multiset_len(p.context) >= 2
     /\ Len(p.context) >= 2

\* Every formula of the multiset is a Quest.
AllQuest(ms) == \A x \in Elems(ms) : x[1] = "Quest"

\* The rule has the single premise ms with the formulas of adds added.
OnePremise(r, ms, adds) ==
  /\ Len(PremiseList(r)) = 1
  /\ IsPlus(PremiseList(r)[1], ms, adds)

\* C22: promotion.  For principal Bang(phi) the generator returns one rule
\* with the single premise context + {phi} whenever every formula of the
\* context is a Quest, whatever their number, and no rule otherwise.
Promotion ==
  \A p \in GenCalls :
     (p.item[1] = "Bang" /\ NoShortcut(p.item, p.context)) =>
        LET rules == Infer_above(p.item, p.context)
        IN  IF AllQuest(p.context)
            THEN /\ Len(rules) = 1
                 /\ OnePremise(rules[1], p.context, <<p.item[2]>>)
            ELSE rules = <<>>

\* C23: for principal Quest(phi), with no axiom shortcut, the generator
\* returns three rules of one premise each, in any context: weakening
\* (the context), dereliction (context + {phi}) and contraction
\* (context + {Quest(phi), Quest(phi)}).
QuestThree ==
  \A p \in GenCalls :
     (p.item[1] = "Quest" /\ NoShortcut(p.item, p.context)) =>
        LET rules == Infer_above(p.item, p.context)
            phi == p.item[2]
        IN  /\ Len(rules) = 3
            /\ OnePremise(rules[1], p.context, <<>>)
            /\ OnePremise(rules[2], p.context, <<phi>>)
            /\ OnePremise(rules[3], p.context, <<Quest(phi), Quest(phi)>>)

\* Quest is principal in a context that holds the same Quest again and a
\* formula that is not a Quest.
QuestThreeWitness ==
  \E p \in GenCalls :
     /\ p.item[1] = "Quest"
     /\ NoShortcut(p.item, p.context)
     /\ Count(p.context, p.item) >= 1
     /\ ~AllQuest(p.context)

\* One DeMorgan step, as a table.
DeMorganStep(d) ==
  CASE d[1] = "Dual" -> d[2]
    [] d = One -> Bottom
    [] d = Bottom -> One
    [] d = Top -> Zero
    [] d = Zero -> Top
    [] d[1] = "Bang" -> Quest(Dual(d[2]))
    [] d[1] = "Quest" -> Bang(Dual(d[2]))
    [] d[1] = "Times" -> Par(Dual(d[2]), Dual(d[3]))
    [] d[1] = "Par" -> Times(Dual(d[2]), Dual(d[3]))
    [] d[1] = "With" -> Plus(Dual(d[2]), Dual(d[3]))
    [] d[1] = "Plus" -> With(Dual(d[2]), Dual(d[3]))

\* C24: DeMorgan pushdown.  For principal Dual(d), with no axiom shortcut,
\* the generator returns one rule with the single premise context + {d'}
\* where d' is d after exactly one DeMorgan step (the operands are wrapped in
\* Dual and left as they are), and no rule for d = Value(_).
DeMorganPushdown ==
  \A p \in GenCalls :
     (p.item[1] = "Dual" /\ NoShortcut(p.item, p.context)) =>
        LET rules == Infer_above(p.item, p.context)
            d == p.item[2]
        IN  IF d[1] = "Value"
            THEN rules = <<>>
            ELSE /\ Len(rules) = 1
                 /\ OnePremise(rules[1], p.context, <<DeMorganStep(d)>>)

\* Dual of a formula with operands is principal in a context that is not
\* empty.
DeMorganPushdownWitness ==
  \E p \in GenCalls :
     /\ p.item[1] = "Dual"
     /\ NoShortcut(p.item, p.context)
     /\ Len(p.item[2]) >= 2
     /\ p.item[2][1] # "Value"
     /\ p.context # <<>>

\* C25: the additive rules share the whole context.  For principal
\* With(phi, psi) the generator returns one rule with the two premises
\* context + {phi} and context + {psi}, two premise occurrences even when
\* phi = psi; for principal Plus(phi, psi) it returns two rules of one
\* premise each, context + {phi} and context + {psi}.
AdditiveRules ==
  \A p \in GenCalls :
     NoShortcut(p.item, p.context) =>
        LET rules == Infer_above(p.item, p.context)
        IN  /\ p.item[1] = "With" =>
                 /\ Len(rules) = 1
                 /\ Len(PremiseList(rules[1])) = 2
                 /\ \E j \in 1..2 :
                      /\ IsPlus(PremiseList(rules[1])[j], p.context,
                                <<p.item[2]>>)
                      /\ IsPlus(PremiseList(rules[1])[3 - j], p.context,
                                <<p.item[3]>>)
            /\ p.item[1] = "Plus" =>
                 /\ Len(rules) = 2
                 /\ OnePremise(rules[1], p.context, <<p.item[2]>>)
                 /\ OnePremise(rules[2], p.context, <<p.item[3]>>)

\* With of twice the same formula is principal.
AdditiveRulesWitness ==
  \E p \in GenCalls :
     /\ p.item[1] = "With"
     /\ p.item[2] = p.item[3]
     /\ NoShortcut(p.item, p.context)
     /\ Len(PremiseList(Infer_above(p.item, p.context)[1])) = 2

\* C26: the multiplicative rules of one premise.  For principal
\* Par(phi, psi) the generator returns one rule whose premise is
\* context + {phi, psi}, one occurrence more than the conclusion; for
\* principal Bottom one rule whose premise is the context, one occurrence
\* fewer.
OnePremiseMultiplicatives ==
  \A p \in GenCalls :
     NoShortcut(p.item, p.context) =>
        LET rules == Infer_above(p.item, p.context)
            conclusion == Multiset_len(Unwrap(current))
        IN  /\ p.item[1] = "Par" =>
                 /\ Len(rules) = 1
                 /\ OnePremise(rules[1], p.context, <<p.item[2], p.item[3]>>)
                 /\ Multiset_len(PremiseList(rules[1])[1]) = conclusion + 1
            /\ p.item = Bottom =>
                 /\ Len(rules) = 1
                 /\ OnePremise(rules[1], p.context, <<>>)
                 /\ Multiset_len(PremiseList(rules[1])[1]) = conclusion - 1

\* A sequent in which a Par and a Bottom are each principal with other
\* formulas around them.
OnePremiseMultiplicativesWitness ==
  /\ \E p \in GenCalls :
        /\ p.item[1] = "Par"
        /\ NoShortcut(p.item, p.context)
        /\ p.context # <<>>
  /\ \E p \in GenCalls :
        /\ p.item = Bottom
        /\ NoShortcut(p.item, p.context)
        /\ p.context # <<>>

\* A sequent whose every principal formula has no candidate rule.
DeadEnd(sequent) == Candidates(sequent) = <<>>

\* C27: dead ends are values.  With no axiom shortcut the generator returns
\* the empty list for principal Zero, Value(_), One in a non-empty context,
\* Dual(Value(_)) and Bang(_) in a context that rules out promotion, and one
\* rule without premises for One in the empty context.  A sequent whose every
\* principal has an empty list is never marked proven, is below no pending
\* inference, and as a goal ends the search with RanOutOfPaths, never with a
\* panic.
DeadEnds ==
  /\ \A p \in GenCalls :
        NoShortcut(p.item, p.context) =>
           LET rules == Infer_above(p.item, p.context)
           IN  /\ (\/ p.item = Zero
                   \/ p.item[1] = "Value"
                   \/ p.item = One /\ p.context # <<>>
                   \/ p.item[1] = "Dual" /\ p.item[2][1] = "Value"
                   \/ p.item[1] = "Bang" /\ ~AllQuest(p.context))
                  => rules = <<>>
               /\ (p.item = One /\ p.context = <<>>) =>
                     /\ Len(rules) = 1
                     /\ PremiseList(rules[1]) = <<>>
  /\ \A s \in DOMAIN thunk.cache : IsSome(thunk.cache[s]) => ~DeadEnd(s)
  /\ \A s \in {inf.below : inf \in paused} : ~DeadEnd(s)
  /\ outcome \notin {"Running", "RanOutOfPaths"} => ~DeadEnd(thunk.original)

\* A sequent of two formulas, neither with a candidate rule, is expanded,
\* and the search goes on.
DeadEndsWitness ==
  /\ pc = "expand"
  /\ DeadEnd(Unwrap(current))
  /\ Len(Unwrap(current)) >= 2
  /\ \A p \in GenCalls : NoShortcut(p.item, p.context)
  /\ thunk.queue # <<>>

\* The context is the single formula Dual(item), once.
IsDualOf(context, item) ==
  Elems(context) = {Dual(item)} /\ Count(context, Dual(item)) = 1

\* C28: the axiom shortcuts.  If the sequent (the context and the principal
\* formula) holds Top, or the context is exactly the one formula
\* Dual(principal), the generator returns an axiom closure, one rule with no
\* premise, and no structural rule, whatever the principal formula is.
AxiomShortcuts ==
  \A p \in GenCalls :
     (\/ Count(p.context, Top) >= 1
      \/ p.item = Top
      \/ IsDualOf(p.context, p.item)) =>
        LET rules == Infer_above(p.item, p.context)
        IN  /\ Len(rules) = 1
            /\ PremiseList(rules[1]) = <<>>

\* A formula with operands is principal next to its own Dual.
AxiomShortcutsWitness ==
  \E p \in GenCalls :
     /\ IsDualOf(p.context, p.item)
     /\ p.item[1] \in {"Quest", "Dual", "Times", "Par", "With", "Plus"}

(***************************************************************************)
(* The older search of proof.rs keeps a Trace (a turnstile and the trace   *)
(* it came from) and, for a rule of two premises, a Split (the set of the  *)
(* premises and the trace below the line).                                 *)
(***************************************************************************)
Trace(turnstile, history) == [current |-> turnstile, history |-> history]

\* impl PartialEq for Trace: only the current turnstiles are compared.
Trace_eq(a, b) == a.current = b.current

\* BTreeSet::insert on a set kept as an ascending sequence.
BTreeSet_insert(set, x) ==
  IF \E i \in 1..Len(set) : Sequent_cmp(set[i], x) = 0
  THEN set
  ELSE LET k == Cardinality({i \in 1..Len(set) : Sequent_cmp(set[i], x) < 0})
       IN  SubSeq(set, 1, k) \o <<x>> \o SubSeq(set, k + 1, Len(set))

\* Trace::two: the split of a trace into two premises.
Split_two(parent, lhs, rhs) ==
  [turnstiles |-> BTreeSet_insert(BTreeSet_insert(<<>>, lhs), rhs),
   history |-> parent]

\* impl PartialEq for Split: only the sets of premises are compared.
Split_eq(a, b) == a.turnstiles = b.turnstiles

\* The two rules have the same premise occurrences.
SamePremises(r1, r2) ==
  \A q \in Range(PremiseList(r1)) \cup Range(PremiseList(r2)) :
     Occ(PremiseList(r1), q) = Occ(PremiseList(r2), q)

\* C29: pending inferences are keyed by their premises.  Two rules are equal
\* iff their premise multisets are (whatever their names), two inferences
\* are equal iff their rules are (whatever is below the line), so inserting
\* an inference whose premises are those of a pending one adds nothing and,
\* after an expansion, no two pending inferences have the same premises.  In the older search the
\* equality of traces ignores the history, and the equality of splits
\* ignores the history and the order of the two premises.
KeyedByPremises ==
  pc = "expand" =>
     LET rules == Candidates(Unwrap(current))
         after == Paused_insert_all(paused, rules, Unwrap(current))
         h1 == Trace(Unwrap(current), None)
         h2 == Trace(Unwrap(current), Some(Trace(thunk.original, None)))
         a1 == Trace(thunk.original, Some(h1))
         a2 == Trace(thunk.original, Some(h2))
     IN  /\ \A i1, i2 \in after : SamePremises(i1.rule, i2.rule) => i1 = i2
         /\ Trace_eq(h1, h2)
         /\ Trace_eq(a1, a2)
         /\ Trace_eq(a1, h1) <=> thunk.original = Unwrap(current)
         /\ \A i \in 1..Len(rules) :
              LET new == Inference(rules[i], Unwrap(current))
                  pi == PremiseList(rules[i])
              IN  /\ \A inf \in paused :
                       /\ Inference_eq(inf, new)
                             <=> SamePremises(inf.rule, rules[i])
                       /\ Rule_eq(inf.rule, rules[i])
                             <=> SamePremises(inf.rule, rules[i])
                  /\ Paused_insert(paused, new) =
                       IF \E inf \in paused : SamePremises(inf.rule, rules[i])
                       THEN paused
                       ELSE paused \cup {new}
                  /\ \A j \in i..Len(rules) :
                       LET pj == PremiseList(rules[j])
                       IN  /\ Rule_eq(rules[i], rules[j])
                                 <=> SamePremises(rules[i], rules[j])
                           /\ (Len(pi) = 2 /\ Len(pj) = 2) =>
                                 /\ Split_eq(Split_two(h1, pi[1], pi[2]),
                                             Split_two(h2, pi[2], pi[1]))
                                 /\ Split_eq(Split_two(h1, pi[1], pi[2]),
                                             Split_two(h2, pj[1], pj[2]))
                                       <=> Range(pi) = Range(pj)

\* A sequent is expanded of which one candidate rule has the premises of a
\* pending inference for another sequent.
KeyedByPremisesWitness ==
  /\ pc = "expand"
  /\ \E i \in 1..Len(Candidates(Unwrap(current))) :
        \E inf \in paused :
           /\ inf.below # Unwrap(current)
           /\ SamePremises(inf.rule, Candidates(Unwrap(current))[i])
           /\ PremiseList(inf.rule) # <<>>

AboveOf(inf) == {inf.rule.above[i][1] : i \in 1..Len(inf.rule.above)}

\* C31: while the search runs, the sequent below every pending inference
\* and every premise of every pending inference is a key of the cache, so
\* no lookup made by proven misses and cache is never handed a sequent that
\* was never pushed; no run ends in either failure.
SeenBeforeQueried ==
  /\ pc # "done" =>
        \A inf \in paused :
           /\ inf.below \in DOMAIN thunk.cache
           /\ AboveOf(inf) \subseteq DOMAIN thunk.cache
           /\ ~Inference_proven_ub(inf, thunk)
  /\ outcome \notin {"PanicNeverSeen", "Undefined"}

\* The sweep is about to look up the premises of several pending
\* inferences, one of them with two different premises, and one of them is
\* about to be handed to cache.
SeenBeforeQueriedWitness ==
  /\ pc = "sweep"
  /\ Cardinality(paused) >= 3
  /\ \E inf \in paused : Cardinality(AboveOf(inf)) >= 2
  /\ \E inf \in paused : AboveOf(inf) # {} /\ Closable(inf)

(***************************************************************************)
(* Two multisets of formulas (the right-hand sides of two sequents) worked *)
(* on by their own methods: insert, take, the comparison and sample.       *)
(***************************************************************************)
\* Largest number of insert calls on one multiset.
MaxInserts == 3

Side(side) == IF side = "m1" THEN m1 ELSE m2

\* The state of a call of prove that is never started.
SearchIdle ==
  /\ expression = One
  /\ debug_assertions = FALSE
  /\ replay = "none"
  /\ first = None
  /\ Start(expression)

InitBench == SearchIdle /\ BenchNew /\ OlderIdle

\* ms.insert(element): the call returns the count the element has now.
Insert ==
  \E side \in {"m1", "m2"}, e \in BenchElements :
     LET after == Multiset_insert(Side(side), e, "Ast")
         i == CHOOSE i \in 1..Len(after) : after[i][1] = e
     IN  /\ tally[side].inserts < MaxInserts
         /\ m1' = IF side = "m1" THEN after ELSE m1
         /\ m2' = IF side = "m2" THEN after ELSE m2
         /\ tally' = [tally EXCEPT ![side].inserts = @ + 1,
                                   ![side].due[e] = @ + 1]
         /\ last' = [op |-> "insert", side |-> side, element |-> e,
                     result |-> after[i][2]]
         /\ UNCHANGED <<search, older>>

\* ms.take(&element).  The tally counts the calls that return true; an
\* occurrence of the element stops being due if one was, whatever the call
\* returns.
Take ==
  \E side \in {"m1", "m2"}, e \in BenchElements :
     LET t == Multiset_take(Side(side), e)
     IN  /\ m1' = IF side = "m1" THEN t.ms ELSE m1
         /\ m2' = IF side = "m2" THEN t.ms ELSE m2
         /\ tally' = [tally EXCEPT
                        ![side].takes = IF t.ok THEN @ + 1 ELSE @,
                        ![side].due[e] = IF @ > 0 THEN @ - 1 ELSE @]
         /\ last' = [op |-> "take", side |-> side, element |-> e,
                     result |-> t.ok]
         /\ UNCHANGED <<search, older>>

\* RhsOnlyWithExchange { rhs: m1 } compared with { rhs: m2 }: == and cmp.
Compare ==
  /\ last' = [op |-> "cmp", eq |-> m1 = m2, result |-> Sequent_cmp(m1, m2)]
  /\ UNCHANGED <<search, older, m1, m2, tally>>

\* RhsOnlyWithExchange { rhs: m1 }.sample()
Sample ==
  /\ last' = [op |-> "sample", result |-> Sequent_sample(m1)]
  /\ UNCHANGED <<search, older, m1, m2, tally>>

NextBench == Insert \/ Take \/ Compare \/ Sample

SpecBench == InitBench /\ [][NextBench]_vars

(***************************************************************************)
(* Properties of the multiset methods.                                     *)
(***************************************************************************)
\* The number of occurrences a multiset is due to hold.
RECURSIVE SumDue(_, _)
SumDue(due, elements) ==
  IF elements = {} THEN 0
  ELSE LET e == CHOOSE e \in elements : TRUE
       IN  due[e] + SumDue(due, elements \ {e})

Total(side) == SumDue(tally[side].due, BenchElements)

\* The (element, count) entries a multiset is due to hold, in the order of
\* the elements.
Entries(side) ==
  LET held == {e \in BenchElements : tally[side].due[e] > 0}
      order == CHOOSE f \in [1..Cardinality(held) -> held] :
                  \A i, j \in DOMAIN f : i < j => Ast_cmp(f[i], f[j]) < 0
  IN  [i \in 1..Cardinality(held) |-> <<order[i], tally[side].due[order[i]]>>]

\* Lexicographic comparison of two lists of entries.
RECURSIVE Lexicographic(_, _)
Lexicographic(a, b) ==
  IF a = <<>> /\ b = <<>> THEN 0
  ELSE IF a = <<>> THEN -1
  ELSE IF b = <<>> THEN 1
  ELSE IF Ast_cmp(a[1][1], b[1][1]) # 0 THEN Ast_cmp(a[1][1], b[1][1])
  ELSE IF a[1][2] # b[1][2] THEN IntCmp(a[1][2], b[1][2])
  ELSE Lexicographic(Tail(a), Tail(b))

\* Every order in which the items of a list can be arranged.
Arrangements(seq) ==
  {[i \in 1..Len(seq) |-> seq[f[i]]] :
     f \in {g \in [1..Len(seq) -> 1..Len(seq)] :
              \A i, j \in 1..Len(seq) : i # j => g[i] # g[j]}}

\* Small multisets to stand third in a chain of comparisons.
Thirds ==
  {Multiset_from_iter(seq, "Ast") :
     seq \in UNION {[1..n -> BenchElements] : n \in 0..2}}

\* C32: equality and order of multisets and sequents are structural.
\* Whenever two sequents have been compared: they are equal, and compare
\* Equal, exactly when they are due the same occurrences of every formula,
\* in whatever order these were inserted (every arrangement of the
\* occurrences builds the same multiset); the one of smaller total size is
\* Less; at equal sizes the result is the lexicographic comparison of the
\* (element, count) entries; and the order is total: the reverse comparison
\* gives the reverse result and the order is transitive.
StructuralOrder ==
  last.op = "cmp" =>
    /\ last.result \in {-1, 0, 1}
    /\ last.eq <=> (tally["m1"].due = tally["m2"].due)
    /\ last.eq <=> (last.result = 0)
    /\ \A seq \in Arrangements(Multiset_iter_repeat(m1)) :
          /\ Multiset_from_iter(seq, "Ast") = m1
          /\ Sequent_cmp(Multiset_from_iter(seq, "Ast"), m1) = 0
    /\ Total("m1") < Total("m2") => last.result = -1
    /\ Total("m1") > Total("m2") => last.result = 1
    /\ Total("m1") = Total("m2") =>
          last.result = Lexicographic(Entries("m1"), Entries("m2"))
    /\ Sequent_cmp(m2, m1) = -last.result
    /\ \A t \in Thirds :
          /\ last.result <= 0 /\ Sequent_cmp(m2, t) <= 0
                => Sequent_cmp(m1, t) <= 0
          /\ Sequent_cmp(t, m1) <= 0 /\ last.result <= 0
                => Sequent_cmp(t, m2) <= 0
          /\ Sequent_cmp(m1, t) <= 0 /\ Sequent_cmp(t, m2) <= 0
                => last.result <= 0

\* Two different sequents of three formulas each, not all the same, that
\* begin with the same formula have been compared: the sizes do not decide
\* and the first element does not either.
StructuralOrderWitness ==
  /\ last.op = "cmp"
  /\ Total("m1") = 3
  /\ Total("m2") = 3
  /\ Len(m1) >= 2
  /\ m1 # m2
  /\ m1[1][1] = m2[1][1]

\* A multiset holds what it is due: the stored elements are different from
\* each other and in ascending order, every stored count is at least 1 and
\* is the number of occurrences due, nothing due is missing, and len() is
\* the number of inserts minus the number of takes that returned true.
AsDue(side) ==
  LET ms == Side(side)
  IN  /\ \A i, j \in 1..Len(ms) : i < j => Ast_cmp(ms[i][1], ms[j][1]) < 0
      /\ \A i \in 1..Len(ms) :
            /\ ms[i][1] \in BenchElements
            /\ ms[i][2] >= 1
            /\ ms[i][2] = tally[side].due[ms[i][1]]
      /\ \A e \in BenchElements :
            tally[side].due[e] > 0 => \E i \in 1..Len(ms) : ms[i][1] = e
      /\ Multiset_len(ms) = tally[side].inserts - tally[side].takes

\* C33: after every insert and every take both multisets hold what they are
\* due (counts at least 1, len = inserts - successful takes).  An insert
\* adds one occurrence of its element and leaves the other elements alone.
\* A take of an absent element returns false and changes nothing; a take of
\* a present element returns true, removes one occurrence and leaves no
\* entry when that was the last one.  A take right after an insert of the
\* same element gives back the multiset from before the insert.
InsertTake ==
  [][/\ AsDue("m1")'
     /\ AsDue("m2")'
     /\ last'.op \in {"insert", "take"} =>
          LET before == Side(last'.side)
              after == IF last'.side = "m1" THEN m1' ELSE m2'
              e == last'.element
          IN  /\ \A x \in BenchElements \ {e} :
                    Count(after, x) = Count(before, x)
              /\ last'.op = "insert" =>
                    /\ Count(after, e) = Count(before, e) + 1
                    /\ last'.result = Count(after, e)
                    /\ Multiset_take(after, e).ok
                    /\ Multiset_take(after, e).ms = before
              /\ last'.op = "take" /\ Count(before, e) = 0 =>
                    /\ ~last'.result
                    /\ after = before
              /\ last'.op = "take" /\ Count(before, e) > 0 =>
                    /\ last'.result
                    /\ Count(after, e) = Count(before, e) - 1
                    /\ Count(before, e) = 1 =>
                          \A i \in 1..Len(after) : after[i][1] # e
              /\ IF last'.side = "m1" THEN m2' = m2 ELSE m1' = m1]_vars

\* A take has just removed the last occurrence of a formula from a multiset
\* that still holds two occurrences of another formula.
InsertTakeWitness ==
  /\ last.op = "take"
  /\ last.result
  /\ last.side = "m1"
  /\ \A i \in 1..Len(m1) : m1[i][1] # last.element
  /\ \E i \in 1..Len(m1) : m1[i][2] = 2

\* C34: sample() returns one pair per distinct formula of the sequent, and
\* no other pair: the formula and the rest, which holds one occurrence of
\* that formula fewer than the sequent and every other formula as often as
\* the sequent does, so that the rest is one formula shorter, still holds
\* the formula when it occurred more than once, and gives the sequent back
\* when the formula is inserted.  The empty sequent yields no pairs.
SamplePairs ==
  last.op = "sample" =>
    LET pairs == last.result
        due == tally["m1"].due
        held == {e \in BenchElements : due[e] > 0}
    IN  /\ Len(pairs) = Cardinality(held)
        /\ \A e \in held :
              Cardinality({i \in 1..Len(pairs) : pairs[i].item = e}) = 1
        /\ \A i \in 1..Len(pairs) :
              LET f == pairs[i].item
                  rest == pairs[i].context
              IN  /\ f \in held
                  /\ \A j \in 1..Len(rest) : rest[j][2] >= 1
                  /\ \A j, k \in 1..Len(rest) :
                        j # k => rest[j][1] # rest[k][1]
                  /\ \A x \in BenchElements \cup Elems(rest) :
                        Count(rest, x) =
                          IF x = f THEN due[x] - 1
                          ELSE IF x \in BenchElements THEN due[x] ELSE 0
                  /\ Multiset_len(rest) = Total("m1") - 1
                  /\ (due[f] > 1) <=> (\E j \in 1..Len(rest) : rest[j][1] = f)
                  /\ Multiset_insert(rest, f, "Ast") = m1
        /\ m1 = <<>> => pairs = <<>>

\* A sequent of two different formulas, one of them twice, was sampled.
SamplePairsWitness ==
  /\ last.op = "sample"
  /\ Len(last.result) = 2
  /\ \E i \in 1..Len(m1) : m1[i][2] = 2
  /\ \E i \in 1..Len(m1) : m1[i][2] = 1

(***************************************************************************)
(* Properties of the search: what the reconstruction finds in the cache.   *)
(***************************************************************************)
\* The sequents the reconstruction can come to from a set of sequents: the
\* premises of the rules stored for them, and so on.
RECURSIVE Reachable(_)
Reachable(sequents) ==
  LET stored == {s \in sequents : s \in DOMAIN thunk.cache
                                  /\ IsSome(thunk.cache[s])}
      more == sequents \cup
                UNION {{Unwrap(thunk.cache[s]).above[i][1] :
                          i \in 1..Len(Unwrap(thunk.cache[s]).above)} :
                       s \in stored}
  IN  IF more = sequents THEN sequents ELSE Reachable(more)

\* A pending inference for the goal that the sweep would close now: cache
\* answers Qed and the reconstruction starts from its rule.
ClosesGoal(inf) ==
  /\ pc = "sweep"
  /\ inf \in paused
  /\ inf.below = thunk.original
  /\ Closable(inf)

\* C35: when the sweep is about to close the goal, every sequent that can
\* be reached from the premises of the closing rule through the stored
\* rules has an entry that holds a rule (none is the goal, none is
\* unproven), the reconstruction from that rule never unwraps an entry that
\* holds no rule, and no run ends in undefined behaviour.
YankProven ==
  /\ \A inf \in paused :
        ClosesGoal(inf) =>
          /\ \A s \in Reachable(AboveOf(inf)) :
                /\ s # thunk.original
                /\ s \in DOMAIN thunk.cache
                /\ IsSome(thunk.cache[s])
          /\ ~Tree_connect(thunk.original, inf.rule.name,
                           Multiset_iter_repeat(inf.rule.above), thunk).ub
  /\ outcome # "Undefined"

\* The sweep is about to close the goal with a rule of two different
\* premises, from which the reconstruction reaches further sequents, one of
\* them by two ways (the second yank finds it absent).
YankProvenWitness ==
  \E inf \in paused :
     /\ ClosesGoal(inf)
     /\ Cardinality(AboveOf(inf)) = 2
     /\ Reachable(AboveOf(inf)) # AboveOf(inf)
     /\ \E s \in Reachable(AboveOf(inf)) :
           Cardinality({t \in Reachable(AboveOf(inf)) :
                          /\ IsSome(thunk.cache[t])
                          /\ s \in AboveOf([rule |-> Unwrap(thunk.cache[t])])
                       }) >= 2

\* Every premise of the rule has a cached proof.
PremisesProven(rule) ==
  \A i \in 1..Len(rule.above) :
     /\ rule.above[i][1] \in DOMAIN thunk.cache
     /\ IsSome(thunk.cache[rule.above[i][1]])

\* C36: no closable sequent is left open.  At the end of an iteration of
\* the main loop, when the sweep has stopped and prove has not returned,
\* every sequent popped so far that has a candidate rule with all premises
\* proven is itself proven.
NoneLeftOpen ==
  pc = "pop" /\ outcome = "Running" =>
    \A i \in 1..Len(popped) :
       (\E k \in 1..Len(Candidates(popped[i])) :
           PremisesProven(Candidates(popped[i])[k]))
          => /\ popped[i] \in DOMAIN thunk.cache
             /\ IsSome(thunk.cache[popped[i]])

\* C37: frontier invariant.  Every queued sequent is a key of the cache
\* with the entry None, and every sequent with a proof in the cache has
\* been popped; the goal is a key of the cache with the entry None from the
\* start of the search on; and no rule with the goal among its premises is
\* ever closed: none is stored in the cache and none is among the
\* inferences the sweep has closed.
Frontier ==
  /\ \A i \in 1..Len(thunk.queue) :
        /\ thunk.queue[i] \in DOMAIN thunk.cache
        /\ thunk.cache[thunk.queue[i]] = None
  /\ thunk.original \in DOMAIN thunk.cache
  /\ thunk.cache[thunk.original] = None
  /\ \A s \in DOMAIN thunk.cache :
        IsSome(thunk.cache[s]) =>
           /\ \E i \in 1..Len(popped) : popped[i] = s
           /\ thunk.original \notin AboveOf([rule |-> Unwrap(thunk.cache[s])])
  /\ \A inf \in done : thunk.original \notin AboveOf(inf)

\* The sweep has closed other inferences while an inference that has the
\* goal among its premises is pending with every other premise proven, and
\* sequents are waiting in the queue.
FrontierWitness ==
  /\ pc = "sweep"
  /\ done # {}
  /\ thunk.queue # <<>>
  /\ \E s \in DOMAIN thunk.cache : IsSome(thunk.cache[s])
  /\ \E inf \in paused :
        /\ thunk.original \in AboveOf(inf)
        /\ \A p \in AboveOf(inf) \ {thunk.original} :
              IsSome(thunk.cache[p])

(***************************************************************************)
(* Properties of the search: the goal Bottom.                              *)
(***************************************************************************)
\* C38: prove(Bottom) returns Failure(RanOutOfPaths).  The goal has one
\* candidate rule, with the empty sequent as its only premise; the empty
\* sequent is queued and popped, samples to nothing and so has no candidate
\* rule; its entry stays None, nothing else is ever queued, and the call
\* returns when the queue is empty after these two pops.
BottomFails ==
  expression = Bottom =>
    /\ \A i \in 1..Len(popped) : popped[i] = <<from_rhs(Bottom), <<>>>>[i]
    /\ thunk.queue \in {<<from_rhs(Bottom)>>, <<<<>>>>, <<>>}
    /\ DOMAIN thunk.cache \subseteq {from_rhs(Bottom), <<>>}
    /\ \A s \in DOMAIN thunk.cache : thunk.cache[s] = None
    /\ pc = "expand" /\ current = Some(from_rhs(Bottom)) =>
          /\ Len(Candidates(Unwrap(current))) = 1
          /\ PremiseList(Candidates(Unwrap(current))[1]) = <<<<>>>>
    /\ pc = "expand" /\ current = Some(<<>>) =>
          /\ Sequent_sample(Unwrap(current)) = <<>>
          /\ Candidates(Unwrap(current)) = <<>>
    /\ pc = "sweep" => done = {}
    /\ pc = "done" =>
          /\ outcome = "RanOutOfPaths"
          /\ Len(popped) = 2
          /\ thunk.queue = <<>>
          /\ tree = None

\* prove(Bottom) has returned.
BottomFailsWitness ==
  /\ expression = Bottom
  /\ pc = "done"
  /\ popped = <<from_rhs(Bottom), <<>>>>

(***************************************************************************)
(* The older search of proof.rs: Ast::prove over traces and splits.  Every *)
(* turnstile it has met is True, False or Unknown in seen; a trace carries *)
(* the chain of turnstiles it would prove; a split waits in the paused set *)
(* until its premises are known.  The paused set is a hash set: the order  *)
(* in which cache_proof finds its decided splits is any order.             *)
(***************************************************************************)
\* enum Inference of proof.rs.
Qed(trace) == [kind |-> "Qed", trace |-> trace]
Contradiction(trace) == [kind |-> "Contradiction", trace |-> trace]
Linear(trace) == [kind |-> "Linear", trace |-> trace]
Binary(split) == [kind |-> "Binary", split |-> split]

\* Trace::one and Trace::two.
Trace_one(parent, child) == Linear(Trace(child, Some(parent)))
Trace_two(parent, lhs, rhs) == Binary(Split_two(parent, lhs, rhs))

\* Trace::age: the length of the history.
RECURSIVE Trace_age(_)
Trace_age(trace) ==
  IF trace.history = None THEN 0 ELSE 1 + Trace_age(Unwrap(trace.history))

\* impl Ord for Trace: the turnstiles (size first, then the multisets), then
\* the shorter history first.
Trace_cmp(a, b) ==
  LET c == Sequent_cmp(a.current, b.current)
  IN  IF c # 0 THEN c ELSE IntCmp(Trace_age(a), Trace_age(b))

\* BinaryHeap<Reverse<Trace>>::push on the ascending sequence.
Paths_push(queue, trace) ==
  LET k == Cardinality({i \in 1..Len(queue) : Trace_cmp(queue[i], trace) <= 0})
  IN  SubSeq(queue, 1, k) \o <<trace>> \o SubSeq(queue, k + 1, Len(queue))

\* Multiset::pair: the two occurrences of a multiset of exactly two.
Multiset_pair(ms) ==
  LET it == Multiset_iter_repeat(ms)
  IN  IF Len(it) = 2 THEN Some(<<it[1], it[2]>>) ELSE None

\* Ast::infer of proof.rs: the next moves for one formula of a turnstile.
Ast_infer(self, context, parent) ==
  CASE self[1] \in {"One", "Top", "Zero", "Value"} -> <<>>
    [] self[1] = "Bottom" -> <<Trace_one(parent, context)>>
    [] self[1] = "Bang" ->
         IF /\ IsSome(Multiset_only(context))
            /\ Unwrap(Multiset_only(context))[1] = "Quest"
         THEN <<Trace_one(parent, Multiset_with(context, <<self[2]>>, "Ast"))>>
         ELSE <<>>
    [] self[1] = "Quest" ->
         <<Trace_one(parent, context),
           Trace_one(parent, Multiset_with(context, <<self[2]>>, "Ast")),
           Trace_one(parent, Multiset_with(context, <<self, self>>, "Ast"))>>
    [] self[1] = "Dual" ->
         IF IsSome(pushdown(self[2]))
         THEN <<Trace_one(parent, Multiset_with(context,
                                    <<Unwrap(pushdown(self[2]))>>, "Ast"))>>
         ELSE <<>>
    [] self[1] = "Times" ->
         LET power_of_2 == Shl1(Multiset_len(context))
         IN  [k \in 1..(2 * power_of_2) |->
                LET bits == (k - 1) \div 2
                    lctx == SplitContext(context, bits, TRUE)
                    rctx == SplitContext(context, bits, FALSE)
                IN  IF (k - 1) % 2 = 0
                    THEN Trace_two(parent,
                                   Multiset_with(lctx, <<self[2]>>, "Ast"),
                                   Multiset_with(rctx, <<self[3]>>, "Ast"))
                    ELSE Trace_two(parent,
                                   Multiset_with(rctx, <<self[2]>>, "Ast"),
                                   Multiset_with(lctx, <<self[3]>>, "Ast"))]
    [] self[1] = "Par" ->
         <<Trace_one(parent, Multiset_with(context, <<self[2], self[3]>>,
                                           "Ast"))>>
    [] self[1] = "With" ->
         <<Trace_two(parent, Multiset_with(context, <<self[2]>>, "Ast"),
                     Multiset_with(context, <<self[3]>>, "Ast"))>>
    [] self[1] = "Plus" ->
         <<Trace_one(parent, Multiset_with(context, <<self[2]>>, "Ast")),
           Trace_one(parent, Multiset_with(context, <<self[3]>>, "Ast"))>>

\* Trace::infer: the turnstiles that are decided at sight, and otherwise the
\* next moves of every distinct formula.
Trace_infer(trace) ==
  LET ms == trace.current
      only == Multiset_only(ms)
      pair == Multiset_pair(ms)
      neg == IF pair = None THEN None
             ELSE IF Unwrap(pair)[1][1] = "Dual" THEN Some(Unwrap(pair)[1][2])
             ELSE IF Unwrap(pair)[2][1] = "Dual" THEN Some(Unwrap(pair)[2][2])
             ELSE None
      pos == IF pair = None THEN None
             ELSE IF Unwrap(pair)[1][1] = "Dual" THEN Some(Unwrap(pair)[2])
             ELSE IF Unwrap(pair)[2][1] = "Dual" THEN Some(Unwrap(pair)[1])
             ELSE None
  IN  IF Multiset_contains(ms, Top) THEN <<Qed(trace)>>
      ELSE IF only = Some(One) THEN <<Qed(trace)>>
      ELSE IF only = Some(Bottom) THEN <<Contradiction(trace)>>
      ELSE IF neg # None /\ neg = pos THEN <<Qed(trace)>>
      ELSE Flatten([i \in 1..Len(ms) |->
                      Ast_infer(ms[i][1], Multiset_take(ms, ms[i][1]).ms,
                                trace)])

\* impl From<bool> for State.
State_from(value) == IF value THEN "True" ELSE "False"

\* Split::proven: False at the first premise known False, True when all are
\* True, Unknown otherwise.  The lookup is unchecked: a premise that was
\* never seen is undefined behaviour.
Split_proven(split, map) ==
  LET ts == split.turnstiles
      falses == {i \in 1..Len(ts) : ts[i] \in DOMAIN map /\ map[ts[i]] = "False"}
      stop == IF falses = {} THEN Len(ts)
              ELSE CHOOSE i \in falses : \A j \in falses : i <= j
  IN  IF \E i \in 1..stop : ts[i] \notin DOMAIN map THEN "Undefined"
      ELSE IF falses # {} THEN "False"
      ELSE IF \A i \in 1..Len(ts) : map[ts[i]] = "True" THEN "True"
      ELSE "Unknown"

\* add_if_new on the record of seen, paths and paused.
add_if_new(st, trace) ==
  IF trace.current \in DOMAIN st.seen THEN st
  ELSE [st EXCEPT !.seen = Map_insert(@, trace.current, "Unknown"),
                  !.paths = Paths_push(@, trace)]

\* HashSet<Split>::insert: a split equal to one in the set is not added.
Splits_insert(set, split) ==
  IF \E other \in set : Split_eq(other, split) THEN set ELSE set \cup {split}

\* cache_proof: mark every turnstile of the chain with the truth, then take
\* the splits that are decided by now out of the paused set and do the same
\* for the chain of each, in any order.  The walk stops when it meets the
\* original turnstile, whatever the truth: reached is then Some(truth) (the
\* function returns None).  The set of all outcomes.
RECURSIVE cache_proof(_, _, _, _)
cache_proof(st, trace, truth, original) ==
  LET RECURSIVE walk(_, _)
      walk(map, t) ==
        IF t.current = original
        THEN [seen |-> map, hit |-> TRUE, ub |-> FALSE]
        ELSE IF t.current \notin DOMAIN map
        THEN [seen |-> map, hit |-> FALSE, ub |-> TRUE]
        ELSE LET marked == [map EXCEPT ![t.current] = State_from(truth)]
             IN  IF t.history # None
                 THEN walk(marked, Unwrap(t.history))
                 ELSE [seen |-> marked, hit |-> FALSE, ub |-> FALSE]
      w == walk(st.seen, trace)
      remove == {<<split, Split_proven(split, w.seen)>> :
                   split \in {x \in st.paused :
                                Split_proven(x, w.seen) # "Unknown"}}
      RECURSIVE rest(_, _)
      rest(s, rem) ==
        IF rem = {}
        THEN {[st |-> s, reached |-> None, ub |-> FALSE]}
        ELSE UNION {UNION {IF o.reached # None \/ o.ub THEN {o}
                           ELSE rest(o.st, rem \ {r}) :
                             o \in cache_proof(s, r[1].history,
                                               r[2] = "True", original)} :
                      r \in rem}
  IN  IF w.hit
      THEN {[st |-> [st EXCEPT !.seen = w.seen], reached |-> Some(truth),
             ub |-> FALSE]}
      ELSE IF w.ub \/ \E r \in remove : r[2] = "Undefined"
      THEN {[st |-> [st EXCEPT !.seen = w.seen], reached |-> None,
             ub |-> TRUE]}
      ELSE rest([st EXCEPT !.seen = w.seen,
                           !.paused = @ \ {r[1] : r \in remove}],
                remove)

\* Inference::handle: the set of outcomes; returned says that handle
\* returned true.
Inference_handle(inf, st, original) ==
  LET proof(t, truth) ==
        {[st |-> o.st, returned |-> o.reached # None /\ ~o.ub,
          reached |-> o.reached, ub |-> o.ub] :
           o \in cache_proof(st, t, truth, original)}
  IN  CASE inf.kind = "Qed" -> proof(inf.trace, TRUE)
        [] inf.kind = "Contradiction" -> proof(inf.trace, FALSE)
        [] inf.kind = "Linear" ->
             {[st |-> add_if_new(st, inf.trace), returned |-> FALSE,
               reached |-> None, ub |-> FALSE]}
        [] inf.kind = "Binary" ->
             LET RECURSIVE add(_, _)
                 add(s, ts) ==
                   IF ts = <<>> THEN s
                   ELSE add(add_if_new(s, Trace(Head(ts), None)), Tail(ts))
                 st1 == add(st, inf.split.turnstiles)
                 known == Split_proven(inf.split, st1.seen)
             IN  CASE known \in {"True", "False"} ->
                        {[st |-> o.st, returned |-> o.reached # None /\ ~o.ub,
                          reached |-> o.reached, ub |-> o.ub] :
                           o \in cache_proof(st1, inf.split.history,
                                             known = "True", original)}
                   [] known = "Unknown" ->
                        {[st |-> [st1 EXCEPT !.paused =
                                     Splits_insert(@, inf.split)],
                          returned |-> FALSE, reached |-> None, ub |-> FALSE]}
                   [] known = "Undefined" ->
                        {[st |-> st1, returned |-> FALSE, reached |-> None,
                          ub |-> TRUE]}

\* Turnstile::new.
Turnstile_new(ast) == Multiset_insert(Multiset_new, ast, "Ast")

\* The formulas the older search is run on: the generated ones and those of
\* the tests of test.rs.
OlderGoals == Generated \cup TestSuite \cup {Par(Bottom, Bottom)}

\* Ast::prove on entry.
Ast_prove_entry ==
  /\ seen = Map_insert(<<>>, Turnstile_new(expression), "Unknown")
  /\ paths = <<Trace(Turnstile_new(expression), None)>>
  /\ paused_splits = {}
  /\ tested = <<>>
  /\ verdict = "Running"
  /\ reached = None

InitOlder ==
  /\ expression \in OlderGoals
  /\ debug_assertions = FALSE
  /\ replay = "none"
  /\ first = None
  /\ Start(expression)
  /\ BenchNew
  /\ Ast_prove_entry

\* while let Some(Reverse(path)) = paths.pop(): handle the expansions of the
\* path one after the other, and return Ok(()) as soon as one handle returns
\* true.
Test ==
  /\ verdict = "Running"
  /\ paths # <<>>
  /\ Len(tested) < MaxPops
  /\ LET path == Head(paths)
         RECURSIVE run(_, _)
         run(st, expansions) ==
           IF expansions = <<>>
           THEN {[st |-> st, returned |-> FALSE, reached |-> None,
                  ub |-> FALSE]}
           ELSE UNION {IF o.returned \/ o.ub THEN {o}
                       ELSE run(o.st, Tail(expansions)) :
                         o \in Inference_handle(Head(expansions), st,
                                                Turnstile_new(expression))}
     IN  \E o \in run([seen |-> seen, paths |-> Tail(paths),
                       paused |-> paused_splits], Trace_infer(path)) :
            /\ seen' = o.st.seen
            /\ paths' = o.st.paths
            /\ paused_splits' = o.st.paused
            /\ tested' = Append(tested, path.current)
            /\ reached' = o.reached
            /\ verdict' = IF o.ub THEN "Undefined"
                          ELSE IF o.returned THEN "Ok" ELSE "Running"
  /\ UNCHANGED <<search, bench>>

\* The queue of traces is empty: Err(Error::RanOutOfPaths).
Exhausted ==
  /\ verdict = "Running"
  /\ paths = <<>>
  /\ verdict' = "RanOutOfPaths"
  /\ UNCHANGED <<search, bench, seen, paths, paused_splits, tested, reached>>

NextOlder == Test \/ Exhausted

SpecOlder == InitOlder /\ [][NextOlder]_vars

\* C39: the older prove returns Ok(()) only when a chain established as
\* true has reached the original turnstile: a chain that is walked with the
\* truth false (from a Contradiction, or from a split with a premise known
\* False) and reaches the original turnstile does not make prove return
\* Ok(()).
OkOnlyWhenTrue ==
  verdict = "Ok" => reached = Some(TRUE)

=============================================================================
